---------------------------- MODULE Spec2Model ----------------------------
(***************************************************************************)
(* A model of the proof-of-work node of COS-ECE470-fa2024: the blockchain  *)
(* ledger (src/src/blockchain/mod.rs), the account state                   *)
(* (src/src/types/state.rs), signed transactions                           *)
(* (src/src/types/transaction.rs), the mempool (src/src/types/mempool.rs), *)
(* the miner (src/src/miner), and the network worker                       *)
(* (src/src/network/worker.rs).                                            *)
(*                                                                         *)
(* An H256 is a sequence of naturals, most significant first; the order on *)
(* H256 is the lexicographic one (big-endian byte order).  SHA-256 is      *)
(* modelled by an injective encoding of the hashed value, preceded by a    *)
(* leading digit that stands for the leading bytes of the digest.          *)
(***************************************************************************)
EXTENDS Integers, Sequences, FiniteSets, TLC

VARIABLES
    blockchain,     \* Blockchain {blocks, states, chain_lengths, tip}
    mempool,        \* Mempool.transactions: tx hash -> SignedTransaction
    orphan_buffer,  \* network Worker.orphan_buffer: parent hash -> Seq(Block)
    worker_msg,     \* the message the network worker is handling
    peer_out,       \* messages written to peers by the last step
    server_out,     \* messages broadcast by the last step
    operating_state,      \* miner Context.operating_state
    control_chan,         \* miner control channel: Seq(ControlSignal)
    miner_pc,             \* where the miner thread is in miner_loop
    miner_round,          \* locals of the mining round: transactions, parent
    finished_block_chan,  \* blocks published by the miner: Seq(Block)
    miner_worker_pc,      \* "recv", or "panicked" after a failed expect
    gen_pc,               \* where the generator is in generate_transactions
    gen_tx,               \* the transaction the generator is working on
    last_insert,    \* the last direct call of Blockchain::insert: [block, ok]
    order,          \* hashes in the order of their first insertion
    inputs,         \* number of inputs so far: peer messages, generated
                    \* transactions, direct calls
    cur_state,      \* a State that transactions are applied to one by one
    last_call,      \* the last State::process_transaction: [tx, before, ok]
    merkle_call,    \* the last proof made and verified on a MerkleTree
    holder,         \* mutex -> the thread that holds its guard, or "free"
    lock_pc         \* thread -> where it is among its lock()/drop() calls

netVars == <<orphan_buffer, worker_msg>>
minerVars == <<operating_state, control_chan, miner_pc, miner_round>>
genVars == <<gen_pc, gen_tx>>
libVars == <<cur_state, last_call, merkle_call>>
lockVars == <<holder, lock_pc>>
nodeVars == <<blockchain, mempool, netVars, peer_out, server_out, minerVars,
              finished_block_chan, miner_worker_pc, genVars, last_insert,
              order, inputs>>

vars == <<blockchain, mempool, orphan_buffer, worker_msg, peer_out,
          server_out, operating_state, control_chan, miner_pc, miner_round,
          finished_block_chan, miner_worker_pc, gen_pc, gen_tx, last_insert,
          order, inputs, cur_state, last_call, merkle_call, holder, lock_pc>>

----------------------------------------------------------------------------
(* Bounds of the model.                                                    *)

\* inputs of a behaviour of the node: peer messages and generated transactions
MaxInputs == 3

\* peer messages a behaviour of the network worker alone receives
MaxNetMsgs == 3

\* direct calls of Blockchain::insert in a behaviour of the ledger alone
MaxInserts == 4


----------------------------------------------------------------------------
(* H256 and hashing.                                                       *)

\* H256::from([0u8; 32])
ZeroHash == <<0, 0>>

\* the genesis target 0x00007fff...ff: leading digit 0, then all ones
GenesisDifficulty == <<0, 9>>

\* H256::from([0xff; 32])
AllOnes == <<9, 9>>

RECURSIVE H256Leq(_, _)
\* a <= b in the derived (lexicographic) order of H256
H256Leq(a, b) ==
    IF a = <<>> THEN TRUE
    ELSE IF b = <<>> THEN FALSE
    ELSE IF Head(a) < Head(b) THEN TRUE
    ELSE IF Head(a) > Head(b) THEN FALSE
    ELSE H256Leq(Tail(a), Tail(b))

\* Leading digit of the digest of a header.  The digest is pseudo-random in
\* the nonce: nonces divisible by 3 give a digest above the genesis target,
\* the others a digest below it.  The genesis header (nonce 0) hashes to
\* e037348f..., above its own target.
Lead(header) == IF header.nonce % 3 = 0 THEN 1 ELSE 0

\* Hashable for Header: SHA-256 of the serialized header
HashHeader(header) ==
    <<Lead(header), header.nonce>> \o header.difficulty
        \o <<Len(header.merkle_root)>> \o header.merkle_root \o header.parent

\* Hashable for Block: only the header is hashed
HashBlock(block) == HashHeader(block.header)

\* Ed25519 signature of a transaction under a key pair; a key pair is named
\* by its public key
Sign(t, key) == <<key, t.receiver, t.value, t.nonce>>

\* UnparsedPublicKey::verify
Ed25519Verify(public_key, t, signature) == signature = Sign(t, public_key)

\* SignedTransaction::new
NewSignedTransaction(t, key) ==
    [transaction |-> t, signature |-> Sign(t, key), public_key |-> key]

\* Hashable for SignedTransaction: SHA-256 of the serialized triple
HashTx(tx) ==
    <<tx.transaction.receiver, tx.transaction.value, tx.transaction.nonce>>
        \o tx.signature \o <<tx.public_key>>

\* Address::from_public_key_bytes
AddressOf(public_key) == 10 + public_key

\* SHA-256 of the concatenation of two nodes of a Merkle level
HashPair(left, right) == <<Len(left)>> \o left \o right

RECURSIVE PairUp(_)
PairUp(level) ==
    IF level = <<>> THEN <<>>
    ELSE <<HashPair(level[1], level[2])>> \o PairUp(SubSeq(level, 3, Len(level)))

RECURSIVE MerkleTop(_)
\* MerkleTree::new followed by root(): pair the level until one node is left,
\* duplicating the last node of a level of odd length
MerkleTop(level) ==
    IF Len(level) = 1 THEN level[1]
    ELSE MerkleTop(PairUp(IF Len(level) % 2 # 0
                          THEN Append(level, level[Len(level)])
                          ELSE level))

\* Hashable for an item of the data a MerkleTree is built on
HashItem(item) == <<item>>

RECURSIVE BuildLevels(_, _)
\* MerkleTree::new, the loop: the level is stored as it is, and paired after
\* its last node was duplicated when its length is odd
BuildLevels(levels, current_level) ==
    IF Len(current_level) > 1
    THEN LET padded == IF Len(current_level) % 2 # 0
                       THEN Append(current_level,
                                   current_level[Len(current_level)])
                       ELSE current_level
             next_level == PairUp(padded)
         IN  BuildLevels(Append(levels, next_level), next_level)
    ELSE levels

\* MerkleTree::new: the levels, leaves first
MerkleTreeNew(data) ==
    LET leaves == IF data = <<>> THEN <<ZeroHash>>
                  ELSE [i \in 1..Len(data) |-> HashItem(data[i])]
    IN  BuildLevels(<<leaves>>, leaves)

\* MerkleTree::root
MerkleRoot(levels) == levels[Len(levels)][1]

\* a sibling that is always taken from the right
SiblingRight(level, idx) ==
    IF idx + 1 < Len(level) THEN level[idx + 2] ELSE level[idx + 1]

\* MerkleTree::proof, the node pushed for position idx (from 0) of a level
Sibling(level, idx) ==
    IF idx % 2 = 0
    THEN IF idx + 1 < Len(level) THEN level[idx + 2] ELSE level[idx + 1]
    ELSE level[idx]

RECURSIVE ProofFrom(_, _, _)
ProofFrom(levels, k, idx) ==
    IF k > Len(levels) - 1 THEN <<>>
    ELSE <<Sibling(levels[k], idx)>> \o ProofFrom(levels, k + 1, idx \div 2)

\* MerkleTree::proof(index), index from 0
MerkleProof(levels, index) ==
    IF levels = <<>> \/ index >= Len(levels[1]) THEN <<>>
    ELSE ProofFrom(levels, 1, index)

RECURSIVE VerifyFrom(_, _, _)
VerifyFrom(computed_hash, proof, idx) ==
    IF proof = <<>> THEN computed_hash
    ELSE VerifyFrom(IF idx % 2 = 0 THEN HashPair(computed_hash, Head(proof))
                    ELSE HashPair(Head(proof), computed_hash),
                    Tail(proof), idx \div 2)

\* merkle::verify(root, datum, proof, index, leaf_size)
MerkleVerify(root, datum, proof, index, leaf_size) ==
    IF index >= leaf_size THEN FALSE
    ELSE VerifyFrom(datum, proof, index) = root

\* compute_merkle_root (the tree of no leaves has the default hash as root)
compute_merkle_root(data) ==
    IF data = <<>> THEN ZeroHash
    ELSE MerkleTop([i \in 1..Len(data) |-> HashTx(data[i])])

----------------------------------------------------------------------------
(* Account state.                                                          *)

\* the key pair of seed [42u8; 32]
IcoKey == 1

\* initial balance of the ICO account
IcoBalance == 1000000

\* State::get_account_state(address).is_some()
HasAccount(state, address) == address \in DOMAIN state

\* State::create_account
create_account(state, address, initial_balance) ==
    [a \in DOMAIN state \cup {address} |->
        IF a = address THEN [nonce |-> 0, balance |-> initial_balance]
        ELSE state[a]]

\* State::update_balance
update_balance(state, address, new_balance) ==
    IF HasAccount(state, address)
    THEN [state EXCEPT ![address].balance = new_balance]
    ELSE state

\* State::increment_nonce
increment_nonce(state, address) ==
    IF HasAccount(state, address)
    THEN [state EXCEPT ![address].nonce = @ + 1]
    ELSE state

\* a verification that skips the signature
verifyUnsigned(tx, state) ==
    LET sender_address == AddressOf(tx.public_key) IN
    /\ HasAccount(state, sender_address)
    /\ tx.transaction.nonce = state[sender_address].nonce + 1
    /\ state[sender_address].balance >= tx.transaction.value

\* SignedTransaction::verify
verify(tx, state) ==
    LET sender_address == AddressOf(tx.public_key) IN
    /\ Ed25519Verify(tx.public_key, tx.transaction, tx.signature)
    /\ HasAccount(state, sender_address)
    /\ tx.transaction.nonce = state[sender_address].nonce + 1
    /\ state[sender_address].balance >= tx.transaction.value

\* process_transaction that credits the balance the receiver had before the
\* sender was debited
process_transaction_stale(state, tx) ==
    LET sender == AddressOf(tx.public_key)
        receiver == tx.transaction.receiver
    IN  IF ~HasAccount(state, sender) THEN [ok |-> FALSE, state |-> state]
        ELSE IF ~verify(tx, state) THEN [ok |-> FALSE, state |-> state]
        ELSE
            LET s1 == update_balance(state, sender,
                          state[sender].balance - tx.transaction.value)
                s2 == increment_nonce(s1, sender)
                s3 == IF HasAccount(s2, receiver)
                      THEN update_balance(s2, receiver,
                               state[receiver].balance + tx.transaction.value)
                      ELSE create_account(s2, receiver, tx.transaction.value)
            IN  [ok |-> TRUE, state |-> s3]

\* process_transaction that counts the nonce before it verifies
process_transaction_counts_first(state, tx) ==
    LET sender == AddressOf(tx.public_key)
        receiver == tx.transaction.receiver
    IN  IF ~HasAccount(state, sender) THEN [ok |-> FALSE, state |-> state]
        ELSE IF ~verify(tx, state)
        THEN [ok |-> FALSE, state |-> increment_nonce(state, sender)]
        ELSE
            LET s1 == update_balance(state, sender,
                          state[sender].balance - tx.transaction.value)
                s2 == increment_nonce(s1, sender)
                s3 == IF HasAccount(s2, receiver)
                      THEN update_balance(s2, receiver,
                               s2[receiver].balance + tx.transaction.value)
                      ELSE create_account(s2, receiver, tx.transaction.value)
            IN  [ok |-> TRUE, state |-> s3]

\* process_transaction that credits the receiver and leaves the balance of
\* the sender as it was
process_transaction_credit_only(state, tx) ==
    LET sender == AddressOf(tx.public_key)
        receiver == tx.transaction.receiver
    IN  IF ~HasAccount(state, sender) THEN [ok |-> FALSE, state |-> state]
        ELSE IF ~verify(tx, state) THEN [ok |-> FALSE, state |-> state]
        ELSE
            LET s2 == increment_nonce(state, sender)
                s3 == IF HasAccount(s2, receiver)
                      THEN update_balance(s2, receiver,
                               s2[receiver].balance + tx.transaction.value)
                      ELSE create_account(s2, receiver, tx.transaction.value)
            IN  [ok |-> TRUE, state |-> s3]

\* State::process_transaction: [ok, state]
process_transaction(state, tx) ==
    LET sender == AddressOf(tx.public_key)
        receiver == tx.transaction.receiver
    IN  IF ~HasAccount(state, sender) THEN [ok |-> FALSE, state |-> state]
        ELSE IF ~verify(tx, state) THEN [ok |-> FALSE, state |-> state]
        ELSE
            LET s1 == update_balance(state, sender,
                          state[sender].balance - tx.transaction.value)
                s2 == increment_nonce(s1, sender)
                s3 == IF HasAccount(s2, receiver)
                      THEN update_balance(s2, receiver,
                               s2[receiver].balance + tx.transaction.value)
                      ELSE create_account(s2, receiver, tx.transaction.value)
            IN  [ok |-> TRUE, state |-> s3]

----------------------------------------------------------------------------
(* Blockchain.                                                             *)

\* the genesis block of Blockchain::new
GenesisBlock ==
    [header |-> [parent |-> ZeroHash, nonce |-> 0,
                 difficulty |-> GenesisDifficulty,
                 merkle_root |-> compute_merkle_root(<<>>)],
     content |-> [data |-> <<>>]]

GenesisHash == HashBlock(GenesisBlock)

\* the genesis state of Blockchain::new
GenesisState == create_account(<<>>, AddressOf(IcoKey), IcoBalance)

\* Blockchain::new
NewBlockchain ==
    [blocks |-> (GenesisHash :> GenesisBlock),
     states |-> (GenesisHash :> GenesisState),
     chain_lengths |-> (GenesisHash :> 0),
     tip |-> GenesisHash]

RECURSIVE ValidateFrom(_, _, _)
\* the first loop of process_block_transactions, from transaction i on
ValidateFrom(data, i, temp_state) ==
    IF i > Len(data) THEN [ok |-> TRUE, state |-> temp_state]
    ELSE IF ~verify(data[i], temp_state)
         THEN [ok |-> FALSE, state |-> temp_state]
    ELSE LET r == process_transaction(temp_state, data[i])
         IN  IF r.ok THEN ValidateFrom(data, i + 1, r.state)
             ELSE [ok |-> FALSE, state |-> temp_state]

\* Blockchain::process_block_transactions: the state stored for the block
process_block_transactions(block, parent_state) ==
    LET r == ValidateFrom(block.content.data, 1, parent_state)
    IN  IF r.ok THEN r.state ELSE parent_state

\* f with key k bound to v (HashMap::insert)
MapInsert(f, k, v) == [x \in DOMAIN f \cup {k} |-> IF x = k THEN v ELSE f[x]]

\* Blockchain::insert with a tip that also moves to a block of equal height
InsertTieReplaces(bc, block) ==
    LET block_hash == HashBlock(block)
        parent_hash == block.header.parent
    IN  IF parent_hash \in DOMAIN bc.states
        THEN LET new_state ==
                     process_block_transactions(block, bc.states[parent_hash])
                 new_length == bc.chain_lengths[parent_hash] + 1
             IN  [ok |-> TRUE,
                  bc |-> [blocks |-> MapInsert(bc.blocks, block_hash, block),
                          states |-> MapInsert(bc.states, block_hash, new_state),
                          chain_lengths |->
                              MapInsert(bc.chain_lengths, block_hash, new_length),
                          tip |-> IF new_length >= bc.chain_lengths[bc.tip]
                                  THEN block_hash ELSE bc.tip]]
        ELSE [ok |-> FALSE, bc |-> bc]

\* Blockchain::insert that keeps a block whose parent has no state
InsertKeepsParentless(bc, block) ==
    LET block_hash == HashBlock(block)
        parent_hash == block.header.parent
    IN  IF parent_hash \in DOMAIN bc.states
        THEN LET new_state ==
                     process_block_transactions(block, bc.states[parent_hash])
                 new_length == bc.chain_lengths[parent_hash] + 1
             IN  [ok |-> TRUE,
                  bc |-> [blocks |-> MapInsert(bc.blocks, block_hash, block),
                          states |-> MapInsert(bc.states, block_hash, new_state),
                          chain_lengths |->
                              MapInsert(bc.chain_lengths, block_hash, new_length),
                          tip |-> IF new_length > bc.chain_lengths[bc.tip]
                                  THEN block_hash ELSE bc.tip]]
        ELSE [ok |-> FALSE,
              bc |-> [bc EXCEPT !.blocks = MapInsert(bc.blocks, block_hash, block)]]

\* Blockchain::insert with a tip that moves only to a child of the tip
InsertExtendsTipOnly(bc, block) ==
    LET block_hash == HashBlock(block)
        parent_hash == block.header.parent
    IN  IF parent_hash \in DOMAIN bc.states
        THEN LET new_state ==
                     process_block_transactions(block, bc.states[parent_hash])
                 new_length == bc.chain_lengths[parent_hash] + 1
             IN  [ok |-> TRUE,
                  bc |-> [blocks |-> MapInsert(bc.blocks, block_hash, block),
                          states |-> MapInsert(bc.states, block_hash, new_state),
                          chain_lengths |->
                              MapInsert(bc.chain_lengths, block_hash, new_length),
                          tip |-> IF parent_hash = bc.tip
                                  THEN block_hash ELSE bc.tip]]
        ELSE [ok |-> FALSE, bc |-> bc]

\* Blockchain::insert with a tip that moves to every inserted block
InsertAlwaysMovesTip(bc, block) ==
    LET block_hash == HashBlock(block)
        parent_hash == block.header.parent
    IN  IF parent_hash \in DOMAIN bc.states
        THEN LET new_state ==
                     process_block_transactions(block, bc.states[parent_hash])
                 new_length == bc.chain_lengths[parent_hash] + 1
             IN  [ok |-> TRUE,
                  bc |-> [blocks |-> MapInsert(bc.blocks, block_hash, block),
                          states |-> MapInsert(bc.states, block_hash, new_state),
                          chain_lengths |->
                              MapInsert(bc.chain_lengths, block_hash, new_length),
                          tip |-> block_hash]]
        ELSE [ok |-> FALSE, bc |-> bc]

\* Blockchain::insert: [ok, bc]
Insert(bc, block) ==
    LET block_hash == HashBlock(block)
        parent_hash == block.header.parent
    IN  IF parent_hash \in DOMAIN bc.states
        THEN LET new_state ==
                     process_block_transactions(block, bc.states[parent_hash])
                 new_length == bc.chain_lengths[parent_hash] + 1
             IN  [ok |-> TRUE,
                  bc |-> [blocks |-> MapInsert(bc.blocks, block_hash, block),
                          states |-> MapInsert(bc.states, block_hash, new_state),
                          chain_lengths |->
                              MapInsert(bc.chain_lengths, block_hash, new_length),
                          tip |-> IF new_length > bc.chain_lengths[bc.tip]
                                  THEN block_hash ELSE bc.tip]]
        ELSE [ok |-> FALSE, bc |-> bc]

\* all_blocks_in_longest_chain, the loop: push current_hash and move to the
\* parent while blocks holds current_hash
RECURSIVE WalkBack(_, _, _)
WalkBack(bc, current_hash, chain) ==
    IF current_hash \in DOMAIN bc.blocks
    THEN WalkBack(bc, bc.blocks[current_hash].header.parent,
                  Append(chain, current_hash))
    ELSE chain

\* Vec::reverse
Reverse(chain) == [i \in 1..Len(chain) |-> chain[Len(chain) + 1 - i]]

\* the walk from the tip, left in the order it was made
TipToGenesis(bc) == WalkBack(bc, bc.tip, <<>>)

\* Blockchain::all_blocks_in_longest_chain
all_blocks_in_longest_chain(bc) == Reverse(WalkBack(bc, bc.tip, <<>>))

----------------------------------------------------------------------------
(* Mempool.                                                                *)

\* f without key k (HashMap::remove)
MapRemove(f, k) == [x \in DOMAIN f \ {k} |-> f[x]]

RECURSIVE RemoveFrom(_, _, _)
RemoveFrom(transactions, txs, i) ==
    IF i > Len(txs) THEN transactions
    ELSE RemoveFrom(MapRemove(transactions, HashTx(txs[i])), txs, i + 1)

\* a removal that leaves the mempool as it is
remove_nothing(transactions, txs) == transactions

\* Mempool::remove_transactions
remove_transactions(transactions, txs) == RemoveFrom(transactions, txs, 1)

\* an insert that reports success also for a transaction it already holds
MempoolInsertReportsKnown(transactions, bc, transaction) ==
    LET hash == HashTx(transaction)
    IN  IF hash \in DOMAIN transactions
        THEN [ok |-> TRUE, transactions |-> transactions]
        ELSE IF bc.tip \in DOMAIN bc.states /\ verify(transaction, bc.states[bc.tip])
        THEN [ok |-> TRUE,
              transactions |-> MapInsert(transactions, hash, transaction)]
        ELSE [ok |-> FALSE, transactions |-> transactions]

\* Mempool::insert: [ok, transactions]; the transaction is verified against
\* the state of the tip of the blockchain
MempoolInsert(transactions, bc, transaction) ==
    LET hash == HashTx(transaction)
    IN  IF hash \in DOMAIN transactions
        THEN [ok |-> FALSE, transactions |-> transactions]
        ELSE IF bc.tip \in DOMAIN bc.states /\ verify(transaction, bc.states[bc.tip])
        THEN [ok |-> TRUE,
              transactions |-> MapInsert(transactions, hash, transaction)]
        ELSE [ok |-> FALSE, transactions |-> transactions]

\* the configured max_block_size of Mempool::new
max_block_size == 100

\* Mempool::get_transactions: up to max_block_size values of the map, in any
\* order (the iteration order of a HashMap)
get_transactions(transactions) ==
    LET n == IF Cardinality(DOMAIN transactions) < max_block_size
             THEN Cardinality(DOMAIN transactions) ELSE max_block_size
    IN  {[i \in 1..n |-> transactions[keys[i]]] :
            keys \in {k \in [1..n -> DOMAIN transactions] :
                         \A i, j \in 1..n : i # j => k[i] # k[j]}}

----------------------------------------------------------------------------
(* Network worker: Message::Blocks.                                        *)

GetBlocks(hashes) == [type |-> "GetBlocks", hashes |-> hashes]

NewBlockHashes(hashes) == [type |-> "NewBlockHashes", hashes |-> hashes]

\* a buffer entry that keeps the last orphan of a parent only
BufferPushReplaces(buffer, key, block) == MapInsert(buffer, key, <<block>>)

\* orphan_buffer.entry(key).or_insert_with(Vec::new).push(block)
BufferPush(buffer, key, block) ==
    MapInsert(buffer, key,
              IF key \in DOMAIN buffer THEN Append(buffer[key], block)
              ELSE <<block>>)

RECURSIVE CollectOrphans(_, _, _)
\* the while loop of process_orphans: [buffer, current_hash, blocks]
CollectOrphans(buffer, current_hash, blocks_to_process) ==
    IF current_hash \in DOMAIN buffer
    THEN LET orphans == buffer[current_hash]
         IN  CollectOrphans(MapRemove(buffer, current_hash),
                            IF orphans = <<>> THEN current_hash
                            ELSE HashBlock(orphans[Len(orphans)]),
                            blocks_to_process \o orphans)
    ELSE [buffer |-> buffer, current_hash |-> current_hash,
          blocks |-> blocks_to_process]

\* a pow test against the largest hash instead of the block's difficulty
FailsPoWAgainstMax(block) == ~H256Leq(HashBlock(block), AllOnes)

\* a pow test against the genesis difficulty instead of the block's own
FailsPoWAgainstGenesis(block) ==
    ~H256Leq(HashBlock(block), GenesisDifficulty)

\* the pow test of the two block paths: block.hash() > block.header.difficulty
FailsPoW(block) == ~H256Leq(HashBlock(block), block.header.difficulty)

RECURSIVE ProcessCollected(_, _, _, _)
\* the for loop of process_orphans over blocks_to_process, from block i on;
\* w = [bc, mp, buffer, server, inserted]
ProcessCollected(w, blocks_to_process, i, current_hash) ==
    IF i > Len(blocks_to_process) THEN w
    ELSE
        LET block == blocks_to_process[i]
            block_hash == HashBlock(block)
        IN  IF FailsPoW(block)
            THEN ProcessCollected(w, blocks_to_process, i + 1, current_hash)
            ELSE
                LET r == Insert(w.bc, block)
                    w2 == IF r.ok
                          THEN [w EXCEPT
                                  !.bc = r.bc,
                                  !.mp = remove_transactions(@, block.content.data),
                                  !.server = Append(@, NewBlockHashes(<<block_hash>>)),
                                  !.inserted = Append(@, block_hash)]
                          ELSE [w EXCEPT
                                  !.buffer = BufferPush(@, current_hash, block)]
                IN  ProcessCollected(w2, blocks_to_process, i + 1, current_hash)

\* Worker::process_orphans
process_orphans(w, parent_hash) ==
    LET c == CollectOrphans(w.buffer, parent_hash, <<>>)
    IN  ProcessCollected([w EXCEPT !.buffer = c.buffer], c.blocks, 1,
                         c.current_hash)

\* the transaction validation of the Blocks arm: every transaction verifies
\* against the state of the parent
all_transactions_valid(bc, block) ==
    /\ block.header.parent \in DOMAIN bc.states
    /\ \A i \in 1..Len(block.content.data) :
          verify(block.content.data[i], bc.states[block.header.parent])

\* the body of `for block in blocks` of the Blocks arm, for one block of a
\* message of `peer`: [bc, mp, buffer, peer, server, inserted]
HandleBlock(bc, mp, buffer, peer, block) ==
    LET parent_hash == block.header.parent
        block_hash == HashBlock(block)
        w0 == [bc |-> bc, mp |-> mp, buffer |-> buffer, peer |-> <<>>,
               server |-> <<>>, inserted |-> <<>>]
    IN  IF block_hash \in DOMAIN bc.blocks THEN w0
        ELSE IF parent_hash \notin DOMAIN bc.blocks
        THEN [w0 EXCEPT
                !.buffer = BufferPush(@, parent_hash, block),
                !.peer = <<[to |-> peer, msg |-> GetBlocks(<<parent_hash>>)]>>]
        ELSE IF FailsPoW(block) THEN w0
        ELSE IF ~all_transactions_valid(bc, block) THEN w0
        ELSE
            LET r == Insert(bc, block)
            IN  IF r.ok
                THEN process_orphans(
                         [w0 EXCEPT
                            !.bc = r.bc,
                            !.mp = remove_transactions(@, block.content.data),
                            !.server = <<NewBlockHashes(<<block_hash>>)>>,
                            !.inserted = <<block_hash>>],
                         block_hash)
                ELSE w0

RECURSIVE AppendNew(_, _, _)
\* seq followed by the elements of hashes, from i on, that it does not hold
AppendNew(seq, hashes, i) ==
    IF i > Len(hashes) THEN seq
    ELSE AppendNew(IF \E j \in 1..Len(seq) : seq[j] = hashes[i] THEN seq
                   ELSE Append(seq, hashes[i]),
                   hashes, i + 1)

----------------------------------------------------------------------------
(* What peers send.                                                        *)

Peers == {1, 2}

\* a block whose merkle root is that of its content
MkBlock(parent, nonce, difficulty, data) ==
    [header |-> [parent |-> parent, nonce |-> nonce, difficulty |-> difficulty,
                 merkle_root |-> compute_merkle_root(data)],
     content |-> [data |-> data]]

Transfer(receiver, value, nonce) ==
    [receiver |-> receiver, value |-> value, nonce |-> nonce]

\* transactions of the ICO account: two of nonce 1 that the balance covers
\* one at a time only, and one of nonce 2
Tx1 == NewSignedTransaction(Transfer(AddressOf(2), 600000, 1), IcoKey)
Tx2 == NewSignedTransaction(Transfer(AddressOf(3), 600000, 1), IcoKey)
Tx3 == NewSignedTransaction(Transfer(AddressOf(2), 1, 2), IcoKey)
\* a transaction that names the ICO key and is signed with another key
TxForged ==
    [transaction |-> Transfer(AddressOf(2), 1, 1),
     signature |-> Sign(Transfer(AddressOf(2), 1, 1), 2),
     public_key |-> IcoKey]

\* children of the genesis block
BlkA == MkBlock(GenesisHash, 1, GenesisDifficulty, <<>>)
BlkB == MkBlock(GenesisHash, 2, GenesisDifficulty, <<Tx1>>)
BlkPow == MkBlock(GenesisHash, 0, GenesisDifficulty, <<>>)
BlkOnes == MkBlock(GenesisHash, 0, AllOnes, <<>>)
BlkTwice == MkBlock(GenesisHash, 1, GenesisDifficulty, <<Tx1, Tx1>>)
BlkOver == MkBlock(GenesisHash, 1, GenesisDifficulty, <<Tx1, Tx2>>)
BlkForged == MkBlock(GenesisHash, 1, GenesisDifficulty, <<TxForged>>)
\* children of BlkA and BlkB
BlkO1 == MkBlock(HashBlock(BlkA), 1, GenesisDifficulty, <<>>)
BlkO2 == MkBlock(HashBlock(BlkA), 2, GenesisDifficulty, <<>>)
BlkOPow == MkBlock(HashBlock(BlkA), 0, GenesisDifficulty, <<>>)
BlkBAgain == MkBlock(HashBlock(BlkB), 1, GenesisDifficulty, <<Tx1>>)
BlkBNext == MkBlock(HashBlock(BlkB), 2, GenesisDifficulty, <<Tx3>>)
\* grandchildren of BlkA
BlkC1 == MkBlock(HashBlock(BlkO1), 1, GenesisDifficulty, <<>>)
BlkC2 == MkBlock(HashBlock(BlkO2), 1, GenesisDifficulty, <<>>)
BlkCPow == MkBlock(HashBlock(BlkOPow), 1, GenesisDifficulty, <<>>)

\* the header of BlkA, and so its hash, over another transaction list
BlkASwap == [header |-> BlkA.header, content |-> [data |-> <<Tx1>>]]

PeerBlocks ==
    {BlkA, BlkB, BlkPow, BlkOnes, BlkTwice, BlkOver, BlkForged,
     BlkO1, BlkO2, BlkOPow, BlkBAgain, BlkBNext, BlkC1, BlkC2, BlkCPow,
     BlkASwap}

\* the Blocks messages of peers: one block, or one of a few pairs
PeerBlockLists ==
    {<<b>> : b \in PeerBlocks}
        \cup {<<BlkO1, BlkO2>>, <<BlkO1, BlkA>>, <<BlkO1, BlkO1>>,
              <<BlkCPow, BlkOPow>>}

----------------------------------------------------------------------------
(* The node.                                                               *)

NewTransactionHashes(hashes) == [type |-> "NewTransactionHashes", hashes |-> hashes]

NoRound == [transactions |-> <<>>, parent_hash |-> ZeroHash, difficulty |-> ZeroHash]

NoTx == NewSignedTransaction(Transfer(0, 0, 0), 0)

\* no proof made yet
NoProof == [data |-> <<>>, index |-> 0, proof |-> <<>>, ok |-> TRUE]

\* the two state mutexes, Arc<Mutex<Blockchain>> and Arc<Mutex<Mempool>>
Mutexes == {"blockchain", "mempool"}

\* the threads of a node that lock them
Threads == {"miner", "miner_worker", "network_worker", "generator"}

Init ==
    /\ blockchain = NewBlockchain
    /\ mempool = <<>>
    /\ orphan_buffer = <<>>
    /\ worker_msg = [peer |-> 1, type |-> "None", payload |-> <<>>,
                     blocks |-> <<>>, txs |-> <<>>, next |-> 1]
    /\ peer_out = <<>>
    /\ server_out = <<>>
    /\ operating_state = [state |-> "Paused", lambda |-> 0]
    /\ control_chan = <<>>
    /\ miner_pc = "loop"
    /\ miner_round = NoRound
    /\ finished_block_chan = <<>>
    /\ miner_worker_pc = "recv"
    /\ gen_pc = "create"
    /\ gen_tx = NoTx
    /\ last_insert = [block |-> GenesisBlock, ok |-> TRUE]
    /\ order = <<GenesisHash>>
    /\ inputs = 0
    /\ cur_state = GenesisState
    /\ last_call = [tx |-> NoTx, before |-> GenesisState, ok |-> FALSE]
    /\ merkle_call = NoProof
    /\ holder = [m \in Mutexes |-> "free"]
    /\ lock_pc = [t \in Threads |-> [path |-> "start", at |-> 1]]

\* the network worker is blocked in msg_chan.recv()
WorkerIdle == worker_msg.next > Len(worker_msg.blocks) + Len(worker_msg.txs)

\* the network worker takes a Blocks message of a peer from msg_chan
RecvBlocks(peer, blocks) ==
    /\ WorkerIdle
    /\ inputs' = inputs + 1
    /\ worker_msg' = [peer |-> peer, type |-> "Blocks", payload |-> blocks,
                      blocks |-> blocks, txs |-> <<>>, next |-> 1]
    /\ peer_out' = <<>>
    /\ server_out' = <<>>
    /\ UNCHANGED <<libVars, lockVars, blockchain, mempool, orphan_buffer, order, minerVars,
                   finished_block_chan, miner_worker_pc, genVars, last_insert>>

\* the network worker handles the next block of the message
WorkerBlock ==
    /\ worker_msg.next <= Len(worker_msg.blocks)
    /\ LET w == HandleBlock(blockchain, mempool, orphan_buffer,
                            worker_msg.peer, worker_msg.blocks[worker_msg.next])
       IN  /\ blockchain' = w.bc
           /\ mempool' = w.mp
           /\ orphan_buffer' = w.buffer
           /\ peer_out' = w.peer
           /\ server_out' = w.server
           /\ order' = AppendNew(order, w.inserted, 1)
    /\ worker_msg' = [worker_msg EXCEPT !.next = @ + 1]
    /\ UNCHANGED <<libVars, lockVars, minerVars, finished_block_chan, miner_worker_pc, genVars,
                   last_insert, inputs>>

\* the transactions of txs, in order, that verify against state
SelectValid(txs, state) == SelectSeq(txs, LAMBDA tx : verify(tx, state))

\* the network worker takes a Transactions message from msg_chan and keeps
\* the transactions that verify against the state of the tip
RecvTransactions(peer, txs) ==
    /\ WorkerIdle
    /\ inputs' = inputs + 1
    /\ worker_msg' = [peer |-> peer, type |-> "Transactions", payload |-> txs,
                      blocks |-> <<>>,
                      txs |-> SelectValid(txs, blockchain.states[blockchain.tip]),
                      next |-> 1]
    /\ peer_out' = <<>>
    /\ server_out' = <<>>
    /\ UNCHANGED <<libVars, lockVars, blockchain, mempool, orphan_buffer, order, minerVars,
                   finished_block_chan, miner_worker_pc, genVars, last_insert>>

\* the network worker inserts the next valid transaction into the mempool
\* and announces it when the mempool took it
WorkerTransaction ==
    /\ worker_msg.next <= Len(worker_msg.txs)
    /\ LET tx == worker_msg.txs[worker_msg.next]
           r == MempoolInsert(mempool, blockchain, tx)
       IN  /\ mempool' = r.transactions
           /\ server_out' = IF r.ok THEN <<NewTransactionHashes(<<HashTx(tx)>>)>>
                            ELSE <<>>
    /\ peer_out' = <<>>
    /\ worker_msg' = [worker_msg EXCEPT !.next = @ + 1]
    /\ UNCHANGED <<libVars, lockVars, blockchain, orphan_buffer, order, minerVars,
                   finished_block_chan, miner_worker_pc, genVars, last_insert,
                   inputs>>

GetTransactions(hashes) == [type |-> "GetTransactions", hashes |-> hashes]

BlocksMsg(blocks) == [type |-> "Blocks", blocks |-> blocks]

TransactionsMsg(transactions) ==
    [type |-> "Transactions", transactions |-> transactions]

\* a write to the peer that is made for an empty list too
ReplyAlways(peer, list, msg) == <<[to |-> peer, msg |-> msg]>>

\* the write to the peer of a handler: nothing when the list is empty
Reply(peer, list, msg) ==
    IF list = <<>> THEN <<>> ELSE <<[to |-> peer, msg |-> msg]>>

\* a message the network worker handles in one piece: nothing but the reply
\* to the peer changes
Answer(peer, type, payload, reply) ==
    /\ WorkerIdle
    /\ inputs' = inputs + 1
    /\ worker_msg' = [peer |-> peer, type |-> type, payload |-> payload,
                      blocks |-> <<>>, txs |-> <<>>, next |-> 1]
    /\ peer_out' = reply
    /\ server_out' = <<>>
    /\ UNCHANGED <<libVars, lockVars, blockchain, mempool, orphan_buffer, order, minerVars,
                   finished_block_chan, miner_worker_pc, genVars, last_insert>>

\* a NewBlockHashes handler that requests every announced hash
RecvNewBlockHashesAll(peer, hashes) ==
    Answer(peer, "NewBlockHashes", hashes, Reply(peer, hashes, GetBlocks(hashes)))

\* worker_loop, NewBlockHashes: request the hashes that are not in blocks
RecvNewBlockHashes(peer, hashes) ==
    LET blocks_to_request ==
            SelectSeq(hashes, LAMBDA hash : hash \notin DOMAIN blockchain.blocks)
    IN  Answer(peer, "NewBlockHashes", hashes,
               Reply(peer, blocks_to_request, GetBlocks(blocks_to_request)))

\* worker_loop, GetBlocks: send the blocks of the hashes that are in blocks
RecvGetBlocks(peer, hashes) ==
    LET known == SelectSeq(hashes, LAMBDA hash : hash \in DOMAIN blockchain.blocks)
        blocks == [i \in 1..Len(known) |-> blockchain.blocks[known[i]]]
    IN  Answer(peer, "GetBlocks", hashes, Reply(peer, blocks, BlocksMsg(blocks)))

\* worker_loop, NewTransactionHashes: request the hashes the mempool lacks
RecvNewTransactionHashes(peer, hashes) ==
    LET txs_to_request ==
            SelectSeq(hashes, LAMBDA hash : hash \notin DOMAIN mempool)
    IN  Answer(peer, "NewTransactionHashes", hashes,
               Reply(peer, txs_to_request, GetTransactions(txs_to_request)))

\* worker_loop, GetTransactions: send the transactions the mempool holds
RecvGetTransactions(peer, hashes) ==
    LET known == SelectSeq(hashes, LAMBDA hash : hash \in DOMAIN mempool)
        transactions == [i \in 1..Len(known) |-> mempool[known[i]]]
    IN  Answer(peer, "GetTransactions", hashes,
               Reply(peer, transactions, TransactionsMsg(transactions)))

Outputs0 == peer_out' = <<>> /\ server_out' = <<>>

\* a direct call of Blockchain::insert
InsertDirect(block) ==
    /\ LET r == Insert(blockchain, block)
       IN  /\ blockchain' = r.bc
           /\ last_insert' = [block |-> block, ok |-> r.ok]
           /\ order' = IF r.ok THEN AppendNew(order, <<HashBlock(block)>>, 1)
                       ELSE order
    /\ inputs' = inputs + 1
    /\ Outputs0
    /\ UNCHANGED <<libVars, lockVars, mempool, netVars, minerVars, finished_block_chan,
                   miner_worker_pc, genVars>>

\* Handle::start(lambda): the API sends Start on the control channel
ApiStart(lambda) ==
    /\ control_chan' = Append(control_chan, [signal |-> "Start", lambda |-> lambda])
    /\ Outputs0
    /\ UNCHANGED <<libVars, lockVars, blockchain, mempool, netVars, operating_state, miner_pc,
                   miner_round, finished_block_chan, miner_worker_pc, genVars,
                   last_insert, order, inputs>>

\* Handle::exit: Exit goes on the control channel
ApiExit ==
    /\ control_chan' = Append(control_chan, [signal |-> "Exit", lambda |-> 0])
    /\ Outputs0
    /\ UNCHANGED <<libVars, lockVars, blockchain, mempool, netVars, operating_state, miner_pc,
                   miner_round, finished_block_chan, miner_worker_pc, genVars,
                   last_insert, order, inputs>>

\* Handle::update: Update goes on the control channel
ApiUpdate ==
    /\ control_chan' = Append(control_chan, [signal |-> "Update", lambda |-> 0])
    /\ Outputs0
    /\ UNCHANGED <<libVars, lockVars, blockchain, mempool, netVars, operating_state, miner_pc,
                   miner_round, finished_block_chan, miner_worker_pc, genVars,
                   last_insert, order, inputs>>

\* a control state that takes Start only when paused
AfterSignalStartWhenPaused(state, signal) ==
    IF signal.signal = "Exit" THEN [state |-> "ShutDown", lambda |-> 0]
    ELSE IF signal.signal = "Start" /\ state.state = "Paused"
    THEN [state |-> "Run", lambda |-> signal.lambda]
    ELSE state

\* the operating state after a control signal
AfterSignal(state, signal) ==
    IF signal.signal = "Exit" THEN [state |-> "ShutDown", lambda |-> 0]
    ELSE IF signal.signal = "Start" THEN [state |-> "Run", lambda |-> signal.lambda]
    ELSE state

\* miner_loop, Paused: the blocking recv of a control signal
MinerPaused ==
    /\ miner_pc = "loop"
    /\ operating_state.state = "Paused"
    /\ control_chan # <<>>
    /\ operating_state' = AfterSignal(operating_state, Head(control_chan))
    /\ control_chan' = Tail(control_chan)
    /\ Outputs0
    /\ UNCHANGED <<libVars, lockVars, blockchain, mempool, netVars, miner_pc, miner_round,
                   finished_block_chan, miner_worker_pc, genVars, last_insert,
                   order, inputs>>

\* miner_loop, ShutDown: the thread returns
MinerReturn ==
    /\ miner_pc = "loop"
    /\ operating_state.state = "ShutDown"
    /\ miner_pc' = "exited"
    /\ Outputs0
    /\ UNCHANGED <<libVars, lockVars, blockchain, mempool, netVars, operating_state, control_chan,
                   miner_round, finished_block_chan, miner_worker_pc, genVars,
                   last_insert, order, inputs>>

\* miner_loop, Run: try_recv of a control signal (Update is unimplemented!()
\* and panics the thread), then the snapshot of the mempool; an empty snapshot
\* skips the round
MinerSnapshot ==
    /\ miner_pc = "loop"
    /\ operating_state.state = "Run"
    /\ Outputs0
    /\ IF control_chan # <<>>
       THEN /\ control_chan' = Tail(control_chan)
            /\ operating_state' = AfterSignal(operating_state, Head(control_chan))
       ELSE UNCHANGED <<control_chan, operating_state>>
    /\ IF control_chan # <<>> /\ Head(control_chan).signal = "Update"
       THEN miner_pc' = "panicked" /\ UNCHANGED miner_round
       ELSE IF operating_state'.state = "ShutDown"
       THEN miner_pc' = "exited" /\ UNCHANGED miner_round
       ELSE \E transactions \in get_transactions(mempool) :
               /\ miner_round' = [NoRound EXCEPT !.transactions = transactions]
               /\ miner_pc' = IF transactions # <<>> THEN "tip" ELSE "loop"
    /\ UNCHANGED <<libVars, lockVars, blockchain, mempool, netVars, finished_block_chan,
                   miner_worker_pc, genVars, last_insert, order, inputs>>

\* a round that mines on the genesis block whatever the tip is
MinerReadGenesis ==
    /\ miner_pc = "tip"
    /\ miner_round' = [miner_round EXCEPT
                         !.parent_hash = GenesisHash,
                         !.difficulty = GenesisDifficulty]
    /\ miner_pc' = "mine"
    /\ Outputs0
    /\ UNCHANGED <<libVars, lockVars, blockchain, mempool, netVars, operating_state, control_chan,
                   finished_block_chan, miner_worker_pc, genVars, last_insert,
                   order, inputs>>

\* miner_loop: the parent and the difficulty of the round, read from the tip
MinerReadTip ==
    /\ miner_pc = "tip"
    /\ miner_round' = [miner_round EXCEPT
                         !.parent_hash = blockchain.tip,
                         !.difficulty =
                             blockchain.blocks[blockchain.tip].header.difficulty]
    /\ miner_pc' = "mine"
    /\ Outputs0
    /\ UNCHANGED <<libVars, lockVars, blockchain, mempool, netVars, operating_state, control_chan,
                   finished_block_chan, miner_worker_pc, genVars, last_insert,
                   order, inputs>>

\* the nonces the mining loop draws
Nonces == 0..1

\* miner_loop: the mining loop ends with a nonce whose block meets the
\* difficulty; the transactions leave the mempool and the block is published
MinerMine(nonce) ==
    /\ miner_pc = "mine"
    /\ LET block == MkBlock(miner_round.parent_hash, nonce,
                            miner_round.difficulty, miner_round.transactions)
       IN  /\ H256Leq(HashBlock(block), miner_round.difficulty)
           /\ mempool' = remove_transactions(mempool, miner_round.transactions)
           /\ finished_block_chan' = Append(finished_block_chan, block)
    /\ miner_pc' = "loop"
    /\ miner_round' = NoRound
    /\ Outputs0
    /\ UNCHANGED <<libVars, lockVars, blockchain, netVars, operating_state, control_chan,
                   miner_worker_pc, genVars, last_insert, order, inputs>>

\* miner::worker::Worker::worker_loop: insert the next finished block; a
\* failed insert panics the thread (expect)
MinerWorkerInsert ==
    /\ miner_worker_pc = "recv"
    /\ finished_block_chan # <<>>
    /\ LET block == Head(finished_block_chan)
           r == Insert(blockchain, block)
       IN  /\ blockchain' = r.bc
           /\ miner_worker_pc' = IF r.ok THEN "recv" ELSE "panicked"
           /\ order' = IF r.ok THEN AppendNew(order, <<HashBlock(block)>>, 1)
                       ELSE order
    /\ finished_block_chan' = Tail(finished_block_chan)
    /\ Outputs0
    /\ UNCHANGED <<libVars, lockVars, mempool, netVars, minerVars, genVars, last_insert, inputs>>

\* the receivers and values the generator draws
GenReceivers == {AddressOf(2)}
GenValues == {99}

\* generate_transactions: create and sign a transaction whose nonce follows
\* the nonce of the own account in the state of the tip
GenCreate(receiver, value) ==
    /\ gen_pc = "create"
    /\ inputs' = inputs + 1
    /\ LET current_state == blockchain.states[blockchain.tip]
           sender_address == AddressOf(IcoKey)
           nonce == IF HasAccount(current_state, sender_address)
                    THEN current_state[sender_address].nonce + 1 ELSE 1
       IN  gen_tx' = NewSignedTransaction(Transfer(receiver, value, nonce), IcoKey)
    /\ gen_pc' = "verify"
    /\ Outputs0
    /\ UNCHANGED <<libVars, lockVars, blockchain, mempool, netVars, minerVars,
                   finished_block_chan, miner_worker_pc, last_insert, order>>

\* generate_transactions: verify against the state of the tip
GenVerify ==
    /\ gen_pc = "verify"
    /\ IF verify(gen_tx, blockchain.states[blockchain.tip])
       THEN gen_pc' = "insert" /\ UNCHANGED gen_tx
       ELSE gen_pc' = "create" /\ gen_tx' = NoTx
    /\ Outputs0
    /\ UNCHANGED <<libVars, lockVars, blockchain, mempool, netVars, minerVars,
                   finished_block_chan, miner_worker_pc, last_insert, order,
                   inputs>>

\* generate_transactions: insert into the mempool and announce on success
GenInsert ==
    /\ gen_pc = "insert"
    /\ LET r == MempoolInsert(mempool, blockchain, gen_tx)
       IN  /\ mempool' = r.transactions
           /\ server_out' = IF r.ok
                            THEN <<NewTransactionHashes(<<HashTx(gen_tx)>>)>>
                            ELSE <<>>
    /\ peer_out' = <<>>
    /\ gen_pc' = "create"
    /\ gen_tx' = NoTx
    /\ UNCHANGED <<libVars, lockVars, blockchain, netVars, minerVars, finished_block_chan,
                   miner_worker_pc, last_insert, order, inputs>>

----------------------------------------------------------------------------
(* Specifications.                                                         *)

\* the Blocks and Transactions messages peers send to the whole node
NodeBlockLists == {<<BlkA>>, <<BlkPow>>, <<BlkOPow, BlkA>>}
NodeTxLists == {<<Tx1>>, <<TxForged>>, <<Tx1, Tx2>>}

\* the whole node: network worker, miner, miner worker and generator
Next ==
    \/ /\ inputs < MaxInputs
       /\ \E blocks \in NodeBlockLists : RecvBlocks(1, blocks)
    \/ WorkerBlock
    \/ /\ inputs < MaxInputs
       /\ \E txs \in NodeTxLists : RecvTransactions(1, txs)
    \/ WorkerTransaction
    \/ /\ control_chan = <<>>
       /\ operating_state.state = "Paused"
       /\ ApiStart(0)
    \/ MinerPaused
    \/ MinerSnapshot
    \/ MinerReadTip
    \/ \E nonce \in Nonces : MinerMine(nonce)
    \/ MinerWorkerInsert
    \/ /\ inputs < MaxInputs
       /\ \E receiver \in GenReceivers, value \in GenValues :
             GenCreate(receiver, value)
    \/ GenVerify
    \/ GenInsert

Spec == Init /\ [][Next]_vars

\* the network worker alone, fed Blocks messages by peers
NextNet ==
    \/ /\ inputs < MaxNetMsgs
       /\ \E peer \in Peers, blocks \in PeerBlockLists : RecvBlocks(peer, blocks)
    \/ WorkerBlock

SpecNet == Init /\ [][NextNet]_vars

\* the ledger alone, under direct calls of Blockchain::insert
NextChain ==
    /\ inputs < MaxInserts
    /\ \E block \in PeerBlocks : InsertDirect(block)

SpecChain == Init /\ [][NextChain]_vars

\* the miner side of the node: control signals of the API, the miner, the
\* miner worker, and the generator filling the mempool; no peers
MaxSignals == 2
MaxGenerated == 2
Lambdas == {0, 1}

\* the steps of the miner thread
MinerStep ==
    \/ MinerPaused
    \/ MinerReturn
    \/ MinerSnapshot
    \/ MinerReadTip
    \/ \E nonce \in Nonces : MinerMine(nonce)

NextMiner ==
    \/ /\ Len(control_chan) < MaxSignals
       /\ \/ \E lambda \in Lambdas : ApiStart(lambda)
          \/ ApiExit
          \/ ApiUpdate
    \/ MinerStep
    \/ MinerWorkerInsert
    \/ /\ inputs < MaxGenerated
       /\ \E receiver \in GenReceivers, value \in GenValues :
             GenCreate(receiver, value)
    \/ GenVerify
    \/ GenInsert

SpecMiner == Init /\ [][NextMiner]_vars

\* the threads of the miner and of the miner worker are scheduled again and
\* again; the API and the generator may stay silent
FairSpecMiner ==
    SpecMiner /\ WF_vars(MinerStep) /\ WF_vars(MinerWorkerInsert)

\* the network worker alone, fed Blocks and Transactions messages by peers
MaxGossipMsgs == 3
BlkATx == MkBlock(HashBlock(BlkA), 1, GenesisDifficulty, <<Tx1>>)
GossipBlockLists == {<<BlkA>>, <<BlkB>>, <<BlkATx>>, <<BlkBNext>>}
GossipTxLists == {<<Tx1>>, <<Tx1, Tx2>>, <<Tx3>>}

NextGossip ==
    \/ /\ inputs < MaxGossipMsgs
       /\ \E blocks \in GossipBlockLists : RecvBlocks(1, blocks)
    \/ WorkerBlock
    \/ /\ inputs < MaxGossipMsgs
       /\ \E txs \in GossipTxLists : RecvTransactions(1, txs)
    \/ WorkerTransaction

SpecGossip == Init /\ [][NextGossip]_vars

\* the network worker alone, fed every kind of message it handles: blocks
\* and transactions, inventories and requests
MaxSyncMsgs == 3

\* transactions that fail verification on the genesis state: a sender
\* without account, and a value above the balance of the ICO account
TxUnknown == NewSignedTransaction(Transfer(AddressOf(3), 1, 1), 2)
TxOver == NewSignedTransaction(Transfer(AddressOf(2), IcoBalance + 1, 1), IcoKey)

SyncBlockLists == {<<BlkA>>, <<BlkB>>}
SyncTxLists ==
    {<<Tx1>>, <<Tx1, Tx1>>, <<TxForged, Tx2>>, <<TxUnknown, TxOver>>, <<Tx3>>}
SyncBlockHashLists ==
    {<<HashBlock(BlkB), GenesisHash, HashBlock(BlkA)>>,
     <<HashBlock(BlkA), HashBlock(BlkA)>>,
     <<GenesisHash>>}
SyncTxHashLists ==
    {<<HashTx(Tx2), HashTx(Tx3), HashTx(Tx1)>>,
     <<HashTx(Tx1), HashTx(Tx1)>>}

NextSync ==
    \/ /\ inputs < MaxSyncMsgs
       /\ \/ \E blocks \in SyncBlockLists : RecvBlocks(1, blocks)
          \/ \E txs \in SyncTxLists : RecvTransactions(1, txs)
          \/ \E peer \in Peers, hashes \in SyncBlockHashLists :
                RecvNewBlockHashes(peer, hashes)
          \/ \E peer \in Peers, hashes \in SyncBlockHashLists :
                RecvGetBlocks(peer, hashes)
          \/ \E peer \in Peers, hashes \in SyncTxHashLists :
                RecvNewTransactionHashes(peer, hashes)
          \/ \E peer \in Peers, hashes \in SyncTxHashLists :
                RecvGetTransactions(peer, hashes)
    \/ WorkerBlock
    \/ WorkerTransaction

SpecSync == Init /\ [][NextSync]_vars

\* The threads as sequences of lock(), drop() and sends.  A path is a piece
\* of the loop body of a thread that starts and ends with no guard alive;
\* a thread runs one path after the other, in the order the data decides in
\* the code and any order here.
Lock(m) == [op |-> "lock", m |-> m]
Drop(m) == [op |-> "drop", m |-> m]
PeerWrite == [op |-> "write", m |-> "none"]
Broadcast == [op |-> "broadcast", m |-> "none"]
ChanSend == [op |-> "send", m |-> "none"]

\* a critical section: the guard is taken and dropped again
Section(m) == <<Lock(m), Drop(m)>>

\* a call of Mempool::insert that gets past the contains_key check, under
\* the mempool guard of the caller: the blockchain is locked for the
\* verification, and the caller drops the mempool guard afterwards
LockedInsert ==
    <<Lock("mempool"), Lock("blockchain"), Drop("blockchain"), Drop("mempool")>>

\* miner_loop: the snapshot of the mempool, the read of the tip, and the
\* removal from the mempool with the send of the block
MinerPaths ==
    [snapshot |-> Section("mempool"),
     tip |-> Section("blockchain"),
     publish |-> Section("mempool") \o <<ChanSend>>]

\* miner worker_loop: insert under the blockchain guard
MinerWorkerPaths == [insert |-> Section("blockchain")]

\* generate_transactions with the mempool locked inside the blockchain guard
GeneratorPathsNested ==
    [tip_state |-> Section("blockchain"),
     known |-> Section("mempool"),
     refused |-> <<Lock("blockchain"), Lock("mempool"), Drop("mempool"),
                   Drop("blockchain")>>,
     inserted |-> <<Lock("blockchain"), Lock("mempool"), Drop("mempool"),
                    Drop("blockchain"), Broadcast>>]

\* generate_transactions: create or verify under the blockchain guard; an
\* insert that finds the hash, one that is refused, one that is followed by
\* the broadcast
GeneratorPaths ==
    [tip_state |-> Section("blockchain"),
     known |-> Section("mempool"),
     refused |-> LockedInsert,
     inserted |-> LockedInsert \o <<Broadcast>>]

\* network worker_loop and process_orphans
NetworkWorkerPaths ==
    [\* NewBlockHashes; Blocks: known check, parent check, validation,
     \* insert; Transactions: validation; process_orphans: insert
     blockchain_section |-> Section("blockchain"),
     \* GetBlocks after NewBlockHashes or for the parent of an orphan
     request |-> <<PeerWrite>>,
     \* GetBlocks: the guard lives to the end of the arm
     GetBlocks |-> <<Lock("blockchain"), PeerWrite, Drop("blockchain")>>,
     \* Blocks and process_orphans: removal from the mempool, then broadcast
     inserted_block |-> Section("mempool") \o <<Broadcast>>,
     \* NewTransactionHashes, GetTransactions
     mempool_reply |-> Section("mempool") \o <<PeerWrite>>,
     \* Transactions: the mempool guard with no, a refused, an inserted
     \* transaction
     known_transaction |-> Section("mempool"),
     refused_transaction |-> LockedInsert,
     inserted_transaction |-> LockedInsert \o <<Broadcast>>]

Paths(t) ==
    IF t = "miner" THEN MinerPaths
    ELSE IF t = "miner_worker" THEN MinerWorkerPaths
    ELSE IF t = "generator" THEN GeneratorPaths
    ELSE NetworkWorkerPaths

\* thread t holds no guard and is between two paths
AtLoopTop(t) == lock_pc[t].path = "start"

\* the operations of the path thread t is on
Code(t) == IF AtLoopTop(t) THEN <<>> ELSE Paths(t)[lock_pc[t].path]

\* the operation thread t executes next
NextOp(t) == Code(t)[lock_pc[t].at]

\* thread t enters path p
Begin(t, p) ==
    /\ AtLoopTop(t)
    /\ lock_pc' = [lock_pc EXCEPT ![t] = [path |-> p, at |-> 1]]
    /\ UNCHANGED <<holder, libVars, nodeVars>>

\* thread t executes its next operation; Mutex::lock blocks while another
\* guard of the mutex is alive
Execute(t) ==
    /\ ~AtLoopTop(t)
    /\ LET o == NextOp(t)
       IN  IF o.op = "lock"
           THEN /\ holder[o.m] = "free"
                /\ holder' = [holder EXCEPT ![o.m] = t]
           ELSE IF o.op = "drop"
           THEN holder' = [holder EXCEPT ![o.m] = "free"]
           ELSE UNCHANGED holder
    /\ lock_pc' = [lock_pc EXCEPT ![t] =
                      IF @.at = Len(Code(t)) THEN [path |-> "start", at |-> 1]
                      ELSE [@ EXCEPT !.at = @ + 1]]
    /\ UNCHANGED <<libVars, nodeVars>>

ThreadStep(t) == (\E p \in DOMAIN Paths(t) : Begin(t, p)) \/ Execute(t)

NextLocks ==
    \/ \E t \in Threads : \E p \in DOMAIN Paths(t) : Begin(t, p)
    \/ \E t \in Threads : Execute(t)

SpecLocks == Init /\ [][NextLocks]_vars

\* every thread is scheduled again and again, and a thread that finds a
\* mutex free again and again gets it
FairSpecLocks == SpecLocks /\ \A t \in Threads : SF_vars(ThreadStep(t))

\* a MerkleTree built on a list of items, a proof made and verified
MaxLeaves == 5
Items == {1, 2}
ItemLists == UNION {[1..n -> Items] : n \in 1..MaxLeaves}

MakeProof(data, index) ==
    /\ LET tree == MerkleTreeNew(data)
           proof == MerkleProof(tree, index)
       IN  merkle_call' =
               [data |-> data, index |-> index, proof |-> proof,
                ok |-> MerkleVerify(MerkleRoot(tree), HashItem(data[index + 1]),
                                    proof, index, Len(data))]
    /\ UNCHANGED <<cur_state, last_call, lockVars, blockchain, mempool,
                   netVars, peer_out, server_out, minerVars,
                   finished_block_chan, miner_worker_pc, genVars, last_insert,
                   order, inputs>>

NextMerkle ==
    \E data \in ItemLists : \E index \in 0..(Len(data) - 1) :
        MakeProof(data, index)

SpecMerkle == Init /\ [][NextMerkle]_vars

\* State::process_transaction applied to a State again and again, beside
\* direct calls of Blockchain::insert
MaxApplied == 3
TxSelf == NewSignedTransaction(Transfer(AddressOf(IcoKey), 7, 1), IcoKey)
TxSelfNext == NewSignedTransaction(Transfer(AddressOf(IcoKey), 7, 2), IcoKey)
TxBack == NewSignedTransaction(Transfer(AddressOf(IcoKey), 100, 1), 2)
StateTxs == {Tx1, Tx2, Tx3, TxForged, TxUnknown, TxOver, TxSelf, TxSelfNext,
             TxBack}
StateBlocks == {BlkA, BlkB, BlkTwice, BlkBNext, BlkO1}

ProcessTransaction(tx) ==
    /\ LET r == process_transaction(cur_state, tx)
       IN  /\ cur_state' = r.state
           /\ last_call' = [tx |-> tx, before |-> cur_state, ok |-> r.ok]
    /\ inputs' = inputs + 1
    /\ UNCHANGED <<merkle_call, lockVars, blockchain, mempool, netVars,
                   peer_out, server_out, minerVars, finished_block_chan,
                   miner_worker_pc, genVars, last_insert, order>>

NextState ==
    /\ inputs < MaxApplied
    /\ \/ \E tx \in StateTxs : ProcessTransaction(tx)
       \/ \E block \in StateBlocks : InsertDirect(block)

SpecState == Init /\ [][NextState]_vars

----------------------------------------------------------------------------
(* The state transition as the specification words it (section 4.2), for   *)
(* the properties below.                                                   *)

\* apply_tx(state, tx): [ok, state]
SpecApplyTx(state, tx) ==
    LET sender == AddressOf(tx.public_key)
        t == tx.transaction
    IN  IF \/ ~Ed25519Verify(tx.public_key, t, tx.signature)
           \/ sender \notin DOMAIN state
           \/ t.nonce # state[sender].nonce + 1
           \/ state[sender].balance < t.value
        THEN [ok |-> FALSE, state |-> state]
        ELSE LET debited == [state EXCEPT ![sender] =
                                [nonce |-> @.nonce + 1,
                                 balance |-> @.balance - t.value]]
             IN  [ok |-> TRUE,
                  state |-> IF t.receiver \in DOMAIN debited
                            THEN [debited EXCEPT ![t.receiver].balance = @ + t.value]
                            ELSE [a \in DOMAIN debited \cup {t.receiver} |->
                                    IF a = t.receiver
                                    THEN [nonce |-> 0, balance |-> t.value]
                                    ELSE debited[a]]]

RECURSIVE SpecApplyFrom(_, _, _)
SpecApplyFrom(state, data, i) ==
    IF i > Len(data) THEN [ok |-> TRUE, state |-> state]
    ELSE LET r == SpecApplyTx(state, data[i])
         IN  IF r.ok THEN SpecApplyFrom(r.state, data, i + 1)
             ELSE [ok |-> FALSE, state |-> state]

\* apply_block(state, block): the transactions in block order, stopping at
\* the first failure
SpecApplyBlock(state, block) == SpecApplyFrom(state, block.content.data, 1)

\* the stored blocks other than the genesis block
StoredHashes == DOMAIN blockchain.blocks \ {GenesisHash}

\* the elements of a sequence
Range(seq) == {seq[i] : i \in 1..Len(seq)}

\* apply_block succeeds for the stored block h on the state of its parent
AppliesOnParent(bc, block) ==
    /\ block.header.parent \in DOMAIN bc.states
    /\ SpecApplyBlock(bc.states[block.header.parent], block).ok

\* this step is the network worker handling one block of a Blocks message
WorkerBlockStep ==
    /\ worker_msg.next <= Len(worker_msg.blocks)
    /\ worker_msg' = [worker_msg EXCEPT !.next = @ + 1]

\* the block the network worker handles in a WorkerBlockStep
HandledBlock == worker_msg.blocks[worker_msg.next]

\* the hashes the step adds to the blockchain, and those it announces
NewlyInserted == DOMAIN blockchain'.blocks \ DOMAIN blockchain.blocks
Announced(out) ==
    UNION {Range(out[i].hashes) : i \in {j \in 1..Len(out) :
                                          out[j].type = "NewBlockHashes"}}

----------------------------------------------------------------------------
(* Properties.                                                             *)

\* C1: for every stored block b other than the genesis block, states[b] is
\* the result of apply_block on the state of b's parent.
StatesAreApplied ==
    \A h \in StoredHashes :
        LET block == blockchain.blocks[h]
        IN  /\ AppliesOnParent(blockchain, block)
            /\ blockchain.states[h] =
                   SpecApplyBlock(blockchain.states[block.header.parent], block).state

\* C2: a call of Blockchain::insert with a block on which apply_block fails
\* returns an error and leaves the blockchain unchanged.
InsertRefusesInvalid ==
    [][LET block == last_insert'.block
       IN  (/\ inputs' = inputs + 1
            /\ block.header.parent \in DOMAIN blockchain.states
            /\ ~AppliesOnParent(blockchain, block))
           => (~last_insert'.ok /\ blockchain' = blockchain)]_vars

\* the tip is stored, no stored block is higher, and among the blocks of its
\* height the tip was inserted first
TipIsFirstHighest ==
    /\ blockchain.tip \in DOMAIN blockchain.blocks
    /\ \A h \in DOMAIN blockchain.blocks :
          blockchain.chain_lengths[h] <= blockchain.chain_lengths[blockchain.tip]
    /\ \E i \in 1..Len(order) :
          /\ order[i] = blockchain.tip
          /\ \A j \in 1..(i - 1) :
                blockchain.chain_lengths[order[j]]
                    < blockchain.chain_lengths[blockchain.tip]

\* a call of insert makes the block the tip when its height is above that of
\* the tip, and leaves the tip alone otherwise
TipMovesOnlyUp ==
    LET block == last_insert'.block
        parent == block.header.parent
    IN  inputs' = inputs + 1 =>
           IF /\ parent \in DOMAIN blockchain.chain_lengths
              /\ blockchain.chain_lengths[parent] + 1
                     > blockchain.chain_lengths[blockchain.tip]
           THEN blockchain'.tip = HashBlock(block)
           ELSE blockchain'.tip = blockchain.tip

\* C3: the tip is a stored block of maximal height, the first inserted among
\* those; insert moves the tip exactly to a strictly higher block.
TipRule == []TipIsFirstHighest /\ [][TipMovesOnlyUp]_vars

\* C3 witness: two stored blocks tie at the maximal height, above genesis
TipTieSeen ==
    \E h \in DOMAIN blockchain.blocks :
        /\ h # blockchain.tip
        /\ blockchain.chain_lengths[h] = blockchain.chain_lengths[blockchain.tip]
        /\ blockchain.chain_lengths[h] = 2

RECURSIVE PathTxs(_, _)
\* the transaction hashes of the blocks on the path from block h to genesis
PathTxs(bc, h) ==
    IF h \notin DOMAIN bc.blocks THEN <<>>
    ELSE LET data == bc.blocks[h].content.data
         IN  [i \in 1..Len(data) |-> HashTx(data[i])]
                 \o PathTxs(bc, bc.blocks[h].header.parent)

\* C4: no transaction hash occurs twice on the path from genesis to a stored
\* block.
NoTxTwiceOnPath ==
    \A h \in DOMAIN blockchain.blocks :
        LET txs == PathTxs(blockchain, h)
        IN  \A i, j \in 1..Len(txs) : i # j => txs[i] # txs[j]

\* C5 as stated: every stored block meets its own difficulty.
AllStoredMeetPoW ==
    \A h \in DOMAIN blockchain.blocks :
        H256Leq(HashBlock(blockchain.blocks[h]),
                blockchain.blocks[h].header.difficulty)

\* C5 amended: every stored block other than the genesis block meets its
\* own difficulty.
StoredMeetPoW ==
    \A h \in StoredHashes :
        /\ h = HashBlock(blockchain.blocks[h])
        /\ H256Leq(h, blockchain.blocks[h].header.difficulty)

\* C5 witness: a block whose hash is above its difficulty came in a message
\* ahead of its parent, was buffered, and was taken from the buffer when the
\* parent was inserted; it is neither stored nor buffered any more
PowFailureRejected ==
    /\ WorkerIdle
    /\ \E i, j \in 1..Len(worker_msg.blocks) :
          LET block == worker_msg.blocks[i]
          IN  /\ i < j
              /\ HashBlock(worker_msg.blocks[j]) = block.header.parent
              /\ ~H256Leq(HashBlock(block), block.header.difficulty)
              /\ block.header.parent \in StoredHashes
              /\ HashBlock(block) \notin DOMAIN blockchain.blocks
              /\ \A k \in DOMAIN orphan_buffer :
                    block \notin Range(orphan_buffer[k])

\* C6: the network worker inserts and announces a received block only if
\* apply_block succeeds for it on the state of its parent.
WorkerInsertsOnlyValid ==
    [][WorkerBlockStep =>
          \A h \in NewlyInserted \cup Announced(server_out') :
              /\ h \in DOMAIN blockchain'.blocks
              /\ AppliesOnParent(blockchain', blockchain'.blocks[h])]_vars

\* C7: every block accepted from peers has the difficulty of its parent.
DifficultyContinuity ==
    \A h \in StoredHashes :
        LET block == blockchain.blocks[h]
        IN  /\ block.header.parent \in DOMAIN blockchain.blocks
            /\ block.header.difficulty =
                   blockchain.blocks[block.header.parent].header.difficulty

\* a block that passes the checks of the ingestion pipeline on bc
ValidOn(bc, block) ==
    /\ H256Leq(HashBlock(block), block.header.difficulty)
    /\ block.header.parent \in DOMAIN bc.blocks
    /\ block.header.difficulty = bc.blocks[block.header.parent].header.difficulty
    /\ AppliesOnParent(bc, block)

\* C8: when the network worker inserts blocks, no valid buffered child of an
\* inserted block stays in the orphan buffer, and every inserted block is
\* announced in the same step.
OrphansReconciled ==
    [][WorkerBlockStep =>
          /\ \A h \in NewlyInserted : h \in Announced(server_out')
          /\ \A k \in DOMAIN orphan_buffer' :
                \A orphan \in Range(orphan_buffer'[k]) :
                    ~(/\ orphan.header.parent \in NewlyInserted
                      /\ ValidOn(blockchain', orphan))]_vars

\* C9: a block that is not stored and whose parent is not stored is appended
\* to the orphan buffer under its parent hash, one GetBlocks([parent]) goes
\* to the sending peer, nothing is inserted or broadcast, and the worker goes
\* on with the next block of the message.
OrphanIsBuffered ==
    [][(/\ WorkerBlockStep
        /\ HashBlock(HandledBlock) \notin DOMAIN blockchain.blocks
        /\ HandledBlock.header.parent \notin DOMAIN blockchain.blocks)
       => LET parent == HandledBlock.header.parent
              before == IF parent \in DOMAIN orphan_buffer
                        THEN orphan_buffer[parent] ELSE <<>>
          IN  /\ blockchain' = blockchain
              /\ mempool' = mempool
              /\ server_out' = <<>>
              /\ peer_out' = <<[to |-> worker_msg.peer,
                                msg |-> [type |-> "GetBlocks",
                                         hashes |-> <<parent>>]]>>
              /\ DOMAIN orphan_buffer' = DOMAIN orphan_buffer \cup {parent}
              /\ orphan_buffer'[parent] = before \o <<HandledBlock>>
              /\ \A k \in DOMAIN orphan_buffer \ {parent} :
                    orphan_buffer'[k] = orphan_buffer[k]
              /\ worker_msg'.blocks = worker_msg.blocks
              /\ worker_msg'.next = worker_msg.next + 1]_vars

\* C9 witness: the first block of a message of two was buffered behind
\* another orphan of the same parent and requested from its sender; the
\* second block is still to be handled
OrphanBufferedMidMessage ==
    /\ Len(worker_msg.blocks) = 2
    /\ worker_msg.next = 2
    /\ worker_msg.peer = 2
    /\ peer_out # <<>>
    /\ LET parent == worker_msg.blocks[1].header.parent
       IN  /\ parent \in DOMAIN orphan_buffer
           /\ Len(orphan_buffer[parent]) = 2
           /\ orphan_buffer[parent][2] = worker_msg.blocks[1]

\* C10: a buffered block whose parent is stored after the step and that
\* fails a check of the pipeline is not inserted and not announced by the
\* step, and once taken from its buffer entry it is not buffered again.
OrphansValidated ==
    [][WorkerBlockStep =>
          \A k \in DOMAIN orphan_buffer :
              \A orphan \in Range(orphan_buffer[k]) :
                  (/\ HashBlock(orphan) \notin DOMAIN blockchain.blocks
                   /\ orphan.header.parent \in DOMAIN blockchain'.blocks
                   /\ ~ValidOn(blockchain', orphan))
                  => /\ HashBlock(orphan) \notin DOMAIN blockchain'.blocks
                     /\ HashBlock(orphan) \notin Announced(server_out')
                     /\ \A k2 \in DOMAIN orphan_buffer' :
                           orphan \notin Range(orphan_buffer'[k2])]_vars

\* C11: a block whose hash is stored is dropped wherever the network worker
\* meets it: a step announces no hash that was stored before the step, and
\* announces no hash twice.
KnownBlocksDropped ==
    [][WorkerBlockStep =>
          \A i \in 1..Len(server_out') :
              server_out'[i].type = "NewBlockHashes" =>
                  \A h \in Range(server_out'[i].hashes) :
                      /\ h \notin DOMAIN blockchain.blocks
                      /\ \A j \in 1..Len(server_out') :
                            (j # i /\ server_out'[j].type = "NewBlockHashes")
                                => h \notin Range(server_out'[j].hashes)]_vars

\* C12: every hash the network worker announces with NewBlockHashes is, when
\* the announcement is out, the hash of a block stored in blocks, states and
\* chain_lengths, and none of that block's transactions is in the mempool
\* (insert, then removal from the mempool, then broadcast), on the direct
\* path and on the orphan path.
AnnouncedAfterInsert ==
    [][WorkerBlockStep =>
          \A h \in Announced(server_out') :
              /\ h \in DOMAIN blockchain'.blocks
              /\ h \in DOMAIN blockchain'.states
              /\ h \in DOMAIN blockchain'.chain_lengths
              /\ \A tx \in Range(blockchain'.blocks[h].content.data) :
                    HashTx(tx) \notin DOMAIN mempool']_vars

\* C12 witness: Tx1 and Tx2 were in the mempool; the parent of a buffered
\* block holding Tx1 came in, and the step released the orphan, took Tx1 out
\* of the mempool and announced the orphan
OrphanWithTxAnnounced ==
    /\ worker_msg.blocks = <<BlkA>>
    /\ worker_msg.next = 2
    /\ HashBlock(BlkATx) \in Announced(server_out)
    /\ HashBlock(BlkATx) \in DOMAIN blockchain.blocks
    /\ HashTx(Tx2) \in DOMAIN mempool
    /\ HashTx(Tx1) \notin DOMAIN mempool

\* C13: when the network worker or the miner worker has inserted a block,
\* none of the block's transaction hashes is in the mempool.
InsertedTxsLeaveMempool ==
    [][\A h \in NewlyInserted :
          \A tx \in Range(blockchain'.blocks[h].content.data) :
              HashTx(tx) \notin DOMAIN mempool']_vars

\* C14: a block of a Blocks message that is not stored, whose parent is
\* stored, whose content is empty and whose hash is at most its own
\* difficulty is inserted, and NewBlockHashes([hash]) is the first message
\* the step broadcasts.
EmptyBlockAccepted ==
    [][(/\ WorkerBlockStep
        /\ HashBlock(HandledBlock) \notin DOMAIN blockchain.blocks
        /\ HandledBlock.header.parent \in DOMAIN blockchain.blocks
        /\ HandledBlock.content.data = <<>>
        /\ H256Leq(HashBlock(HandledBlock), HandledBlock.header.difficulty))
       => /\ HashBlock(HandledBlock) \in DOMAIN blockchain'.blocks
          /\ blockchain'.blocks[HashBlock(HandledBlock)] = HandledBlock
          /\ server_out' # <<>>
          /\ server_out'[1] = [type |-> "NewBlockHashes",
                               hashes |-> <<HashBlock(HandledBlock)>>]]_vars

\* C14 witness: a block of all-ones difficulty, as generate_random_block
\* builds it, was handled, is stored and is announced
RandomBlockAnnounced ==
    /\ worker_msg.blocks = <<BlkOnes>>
    /\ worker_msg.next = 2
    /\ HashBlock(BlkOnes) \in DOMAIN blockchain.blocks
    /\ server_out = <<[type |-> "NewBlockHashes", hashes |-> <<HashBlock(BlkOnes)>>]>>

\* this step is the miner publishing a block on the finished-block channel
Publishes ==
    /\ Len(finished_block_chan') = Len(finished_block_chan) + 1
    /\ SubSeq(finished_block_chan', 1, Len(finished_block_chan)) = finished_block_chan

\* the block a Publishes step puts on the channel
PublishedBlock == finished_block_chan'[Len(finished_block_chan')]

\* C15: the miner reads the parent of a round from the tip and the
\* difficulty from that parent block; the block it publishes has this
\* parent and this difficulty, and its hash is at most the difficulty.
MinedBlockWellFormed ==
    [][/\ (miner_pc = "tip" /\ miner_pc' = "mine") =>
             /\ miner_round'.parent_hash = blockchain.tip
             /\ miner_round'.difficulty =
                    blockchain.blocks[blockchain.tip].header.difficulty
       /\ Publishes =>
             /\ H256Leq(HashBlock(PublishedBlock), PublishedBlock.header.difficulty)
             /\ PublishedBlock.header.parent = miner_round.parent_hash
             /\ PublishedBlock.header.difficulty = miner_round.difficulty
             /\ PublishedBlock.header.parent \in DOMAIN blockchain.blocks
             /\ PublishedBlock.header.difficulty =
                    blockchain.blocks[PublishedBlock.header.parent].header.difficulty]_vars

\* C15 witness: a block mined on a tip other than genesis is on the channel
MinedOnLaterTip ==
    \E i \in 1..Len(finished_block_chan) :
        /\ finished_block_chan[i].header.parent # GenesisHash
        /\ finished_block_chan[i].header.parent \in DOMAIN blockchain.blocks

\* the hash of the block the miner published last, on a node without peers:
\* the last block of the channel or, when the miner worker has taken them
\* all, the block inserted last
LastPublished ==
    IF finished_block_chan # <<>>
    THEN HashBlock(finished_block_chan[Len(finished_block_chan)])
    ELSE order[Len(order)]

\* C16: without blocks from peers, every block the miner publishes after its
\* first has the block published before it as its parent.
MinedBlocksFormChain ==
    [][(Publishes /\ LastPublished # GenesisHash)
          => PublishedBlock.header.parent = LastPublished]_vars

\* the first transaction the generator creates, and the blocks the miner can
\* publish with it on the genesis block
GenTx1 == NewSignedTransaction(Transfer(AddressOf(2), 99, 1), IcoKey)
FirstMinedBlocks ==
    {block \in {MkBlock(GenesisHash, nonce, GenesisDifficulty, <<GenTx1>>) :
                   nonce \in Nonces} :
        H256Leq(HashBlock(block), block.header.difficulty)}

\* C17: every block the miner publishes is eventually stored in the
\* blockchain with its hash announced to the peers by NewBlockHashes.
PublishedBlocksGossiped ==
    \A block \in FirstMinedBlocks :
        (block \in Range(finished_block_chan))
            ~> (/\ HashBlock(block) \in DOMAIN blockchain.blocks
                /\ HashBlock(block) \in Announced(server_out))

\* C18: on a fresh node with Start(0) processed, as long as nothing else
\* comes in (no generated transaction, no further control signal), the
\* miner eventually publishes a block.
StartedMinerPublishes ==
    (/\ operating_state = [state |-> "Run", lambda |-> 0]
     /\ control_chan = <<>>
     /\ inputs = 0)
        ~> \/ finished_block_chan # <<>>
           \/ inputs > 0
           \/ control_chan # <<>>

\* this step is the miner taking the signal at the head of the control channel
TakesSignal(signal) ==
    /\ control_chan # <<>>
    /\ Head(control_chan).signal = signal
    /\ control_chan' = Tail(control_chan)

\* C19: an Update signal leaves the control state of the miner as it is and
\* does not end the miner thread.
UpdateIsNoOp ==
    [][TakesSignal("Update") =>
          /\ operating_state' = operating_state
          /\ miner_pc' \notin {"panicked", "exited"}]_vars

\* C20: the miner starts in Paused; it publishes only in Run; it enters or
\* changes Run only by taking a Start signal, which sets Run(lambda) also
\* when it is running; taking Exit sets ShutDown; in ShutDown the state
\* stays, no signal is taken and no block is published.
MinerControl ==
    /\ operating_state = [state |-> "Paused", lambda |-> 0]
    /\ [][/\ Publishes => operating_state.state = "Run"
          /\ (operating_state'.state = "Run" /\ operating_state' # operating_state)
                => TakesSignal("Start")
          /\ TakesSignal("Start")
                => operating_state' = [state |-> "Run",
                                       lambda |-> Head(control_chan).lambda]
          /\ TakesSignal("Exit") => operating_state'.state = "ShutDown"
          /\ operating_state.state = "ShutDown"
                => /\ operating_state' = operating_state
                   /\ ~Publishes
                   /\ Len(control_chan') >= Len(control_chan)]_vars

\* C20 witness: the miner has published a block, has taken Exit and has
\* returned; a later Start waits on the control channel
StartAfterShutDown ==
    /\ operating_state.state = "ShutDown"
    /\ miner_pc = "exited"
    /\ StoredHashes # {}
    /\ control_chan # <<>>
    /\ Head(control_chan).signal = "Start"

\* this step is the network worker handling one transaction of a
\* Transactions message
WorkerTxStep ==
    /\ worker_msg.next <= Len(worker_msg.txs)
    /\ worker_msg' = [worker_msg EXCEPT !.next = @ + 1]

\* the transaction hashes a step announces
AnnouncedTxs(out) ==
    UNION {Range(out[i].hashes) : i \in {j \in 1..Len(out) :
                                          out[j].type = "NewTransactionHashes"}}

\* C21: every transaction a step of the network worker adds to the mempool
\* or announces passes the checks of apply_tx (signature, known sender,
\* nonce, balance) on the state of the tip; one that fails them is neither
\* added nor announced.
InvalidTxRejected ==
    [][\A h \in (DOMAIN mempool' \ DOMAIN mempool) \cup AnnouncedTxs(server_out') :
          /\ h \in DOMAIN mempool'
          /\ SpecApplyTx(blockchain.states[blockchain.tip], mempool'[h]).ok]_vars

\* C21 witness: a message with a forged transaction ahead of a valid one was
\* handled to its end; the valid one is in the mempool, the forged one not
ForgedTxDropped ==
    /\ worker_msg.type = "Transactions"
    /\ worker_msg.payload = <<TxForged, Tx2>>
    /\ WorkerIdle
    /\ HashTx(Tx2) \in DOMAIN mempool
    /\ HashTx(TxForged) \notin DOMAIN mempool

\* C22: handling a received transaction, the network worker broadcasts
\* NewTransactionHashes([hash]), and nothing else, exactly when the step put
\* the transaction into the mempool; a transaction whose hash the mempool
\* holds is dropped: mempool unchanged, nothing broadcast.
TxAnnouncedIffInserted ==
    [][WorkerTxStep =>
          LET tx == worker_msg.txs[worker_msg.next]
              h == HashTx(tx)
              inserted == h \notin DOMAIN mempool /\ h \in DOMAIN mempool'
          IN  /\ inserted => /\ mempool'[h] = tx
                             /\ server_out' = <<[type |-> "NewTransactionHashes",
                                                 hashes |-> <<h>>]>>
              /\ ~inserted => mempool' = mempool /\ server_out' = <<>>
              /\ h \in DOMAIN mempool => ~inserted
              /\ peer_out' = <<>>]_vars

\* C22 witness: the second copy of a transaction in one message was dropped
\* without announcement; the first copy is in the mempool
KnownTxDropped ==
    /\ worker_msg.type = "Transactions"
    /\ worker_msg.txs = <<Tx1, Tx1>>
    /\ worker_msg.next = 3
    /\ HashTx(Tx1) \in DOMAIN mempool
    /\ server_out = <<>>

\* C23: Mempool::insert, as the generator calls it, refuses a transaction
\* (returns false, mempool unchanged) if and only if its hash is already in
\* the mempool; every other transaction is stored and true is returned,
\* whatever the account state of the tip says.  The generator announces the
\* transaction exactly when insert returned true.
MempoolInsertByHashOnly ==
    [][(gen_pc = "insert" /\ gen_pc' = "create") =>
          LET h == HashTx(gen_tx)
          IN  IF h \in DOMAIN mempool
              THEN mempool' = mempool /\ server_out' = <<>>
              ELSE /\ mempool' = MapInsert(mempool, h, gen_tx)
                   /\ server_out' = <<NewTransactionHashes(<<h>>)>>]_vars

\* the elements of list that are in set, in the order of list
RECURSIVE Keep(_, _)
Keep(list, set) ==
    IF list = <<>> THEN <<>>
    ELSE (IF Head(list) \in set THEN <<Head(list)>> ELSE <<>>)
         \o Keep(Tail(list), set)

\* the single message msg to the peer of the handled message, or no message
\* at all when list is empty; nothing is broadcast
RepliedOnce(list, msg) ==
    /\ server_out = <<>>
    /\ peer_out = IF list = <<>> THEN <<>>
                  ELSE <<[to |-> worker_msg.peer, msg |-> msg]>>

\* C24: after NewBlockHashes(hashes) the only message sent is one GetBlocks
\* to the sending peer listing, in announced order, exactly the announced
\* hashes that are not in the block store, and nothing is sent when all are
\* stored; likewise GetTransactions after NewTransactionHashes(hashes) for
\* the hashes that are not in the mempool.
UnknownHashesRequested ==
    /\ worker_msg.type = "NewBlockHashes" =>
          LET unknown == Keep(worker_msg.payload,
                              Range(worker_msg.payload) \ DOMAIN blockchain.blocks)
          IN  RepliedOnce(unknown, [type |-> "GetBlocks", hashes |-> unknown])
    /\ worker_msg.type = "NewTransactionHashes" =>
          LET unknown == Keep(worker_msg.payload,
                              Range(worker_msg.payload) \ DOMAIN mempool)
          IN  RepliedOnce(unknown, [type |-> "GetTransactions", hashes |-> unknown])

\* C24 witness: of three announced blocks only the one not stored is requested
OnlyUnknownBlockRequested ==
    /\ worker_msg.type = "NewBlockHashes"
    /\ worker_msg.peer = 2
    /\ worker_msg.payload = <<HashBlock(BlkB), GenesisHash, HashBlock(BlkA)>>
    /\ HashBlock(BlkA) \in DOMAIN blockchain.blocks
    /\ peer_out = <<[to |-> 2, msg |-> [type |-> "GetBlocks",
                                        hashes |-> <<HashBlock(BlkB)>>]]>>

\* C25: after GetBlocks(hashes) the only message sent is one Blocks message
\* to the requesting peer holding, in request order, exactly the stored
\* blocks of the requested hashes, and nothing is sent when none is stored;
\* likewise one Transactions message after GetTransactions(hashes) with the
\* requested transactions of the mempool.
KnownItemsSent ==
    /\ worker_msg.type = "GetBlocks" =>
          LET known == Keep(worker_msg.payload, DOMAIN blockchain.blocks)
              blocks == [i \in 1..Len(known) |-> blockchain.blocks[known[i]]]
          IN  RepliedOnce(known, [type |-> "Blocks", blocks |-> blocks])
    /\ worker_msg.type = "GetTransactions" =>
          LET known == Keep(worker_msg.payload, DOMAIN mempool)
              transactions == [i \in 1..Len(known) |-> mempool[known[i]]]
          IN  RepliedOnce(known, [type |-> "Transactions",
                                  transactions |-> transactions])

\* C25 witness: of three requested blocks the two stored ones are sent in
\* request order
StoredBlocksSent ==
    /\ worker_msg.type = "GetBlocks"
    /\ worker_msg.peer = 2
    /\ worker_msg.payload = <<HashBlock(BlkB), GenesisHash, HashBlock(BlkA)>>
    /\ HashBlock(BlkB) \notin DOMAIN blockchain.blocks
    /\ peer_out = <<[to |-> 2, msg |-> [type |-> "Blocks",
                                        blocks |-> <<GenesisBlock, BlkA>>]]>>

\* a call of Blockchain::insert has returned in this step
InsertCall == inputs' = inputs + 1

\* C26: Blockchain::insert of a block whose parent has no stored state
\* returns an error and leaves blocks, states, chain_lengths and tip as they
\* were.
MissingParentRefused ==
    [][(InsertCall /\ last_insert'.block.header.parent \notin DOMAIN blockchain.states)
          => /\ ~last_insert'.ok
             /\ blockchain'.blocks = blockchain.blocks
             /\ blockchain'.states = blockchain.states
             /\ blockchain'.chain_lengths = blockchain.chain_lengths
             /\ blockchain'.tip = blockchain.tip]_vars

\* C26 witness: after two blocks were stored, the insert of a block whose
\* parent was never inserted has failed
ParentlessInsertFailed ==
    /\ ~last_insert.ok
    /\ last_insert.block.header.parent \notin DOMAIN blockchain.states
    /\ HashBlock(last_insert.block) \notin DOMAIN blockchain.blocks
    /\ Cardinality(DOMAIN blockchain.blocks) = 3

\* C27: all_blocks_in_longest_chain() is the path from the genesis block
\* (first) to the tip (last) in which every element is the parent of the
\* next, so its length is the height of the tip plus one (1 on a fresh
\* blockchain).
LongestChainIsPath ==
    LET chain == all_blocks_in_longest_chain(blockchain)
    IN  /\ Len(chain) = blockchain.chain_lengths[blockchain.tip] + 1
        /\ chain[1] = GenesisHash
        /\ chain[Len(chain)] = blockchain.tip
        /\ \A i \in 1..Len(chain) :
              /\ chain[i] \in DOMAIN blockchain.blocks
              /\ i < Len(chain) =>
                    blockchain.blocks[chain[i + 1]].header.parent = chain[i]
        /\ blockchain = NewBlockchain => chain = <<GenesisHash>>

\* C27 witness: a chain of three blocks beside a stored block that is not
\* on it
LongestChainBesideFork ==
    /\ Len(all_blocks_in_longest_chain(blockchain)) = 3
    /\ DOMAIN blockchain.blocks
           \ Range(all_blocks_in_longest_chain(blockchain)) # {}

\* the path from the genesis block to the stored block hash
PathTo(bc, hash) == all_blocks_in_longest_chain([bc EXCEPT !.tip = hash])

\* C28: when Blockchain::insert stores a block whose parent is not the tip
\* and whose height is strictly greater than the height of the tip, the tip
\* becomes that block and all_blocks_in_longest_chain() is the path to its
\* parent followed by the block; the former tip is not on it.
LongestChainSwitch ==
    [][LET block == last_insert'.block
           parent == block.header.parent
       IN  (/\ InsertCall
            /\ parent \in DOMAIN blockchain.states
            /\ parent # blockchain.tip
            /\ blockchain.chain_lengths[parent] + 1
                   > blockchain.chain_lengths[blockchain.tip])
           => /\ blockchain'.tip = HashBlock(block)
              /\ all_blocks_in_longest_chain(blockchain')
                     = Append(PathTo(blockchain, parent), HashBlock(block))
              /\ blockchain.tip
                     \notin Range(all_blocks_in_longest_chain(blockchain'))]_vars

\* C28 witness: BlkA and then BlkB were inserted on genesis, the tip stayed
\* BlkA; the child BlkBNext of BlkB has taken the tip and the chain is
\* genesis, BlkB, BlkBNext
SwitchedToOtherBranch ==
    /\ order = <<GenesisHash, HashBlock(BlkA), HashBlock(BlkB), HashBlock(BlkBNext)>>
    /\ last_insert = [block |-> BlkBNext, ok |-> TRUE]
    /\ blockchain.tip = HashBlock(BlkBNext)
    /\ all_blocks_in_longest_chain(blockchain)
           = <<GenesisHash, HashBlock(BlkB), HashBlock(BlkBNext)>>

\* C29: from one state to the next the height of the tip never decreases,
\* whatever block is inserted and whether the insertion succeeds or fails.
TipHeightNeverDecreases ==
    [][blockchain'.chain_lengths[blockchain'.tip]
           >= blockchain.chain_lengths[blockchain.tip]]_vars

\* C29 witness: the last insertion stored a new block at height 1 while the
\* tip is at height 2, and the tip stayed
StoredBelowTip ==
    /\ blockchain.chain_lengths[blockchain.tip] = 2
    /\ last_insert.ok
    /\ HashBlock(last_insert.block) \in DOMAIN blockchain.chain_lengths
    /\ blockchain.chain_lengths[HashBlock(last_insert.block)] = 1
    /\ order[Len(order)] = HashBlock(last_insert.block)

\* C30: a stored block is terminal: its entries in blocks, states and
\* chain_lengths are never removed and never change, whatever is inserted
\* later, a block of the same header over another transaction list
\* included.
InsertedIsTerminal ==
    [][\A h \in DOMAIN blockchain.blocks :
          /\ h \in DOMAIN blockchain'.blocks
          /\ blockchain'.blocks[h] = blockchain.blocks[h]
          /\ blockchain'.states[h] = blockchain.states[h]
          /\ blockchain'.chain_lengths[h] = blockchain.chain_lengths[h]]_vars

\* a call of State::process_transaction has returned in this step
ProcessCall == inputs' = inputs + 1 /\ last_call' # last_call

\* tx passes all checks on state: signature, sender account, nonce, balance
PassesChecks(state, tx) ==
    LET sender == AddressOf(tx.public_key)
    IN  /\ tx.signature = Sign(tx.transaction, tx.public_key)
        /\ sender \in DOMAIN state
        /\ tx.transaction.nonce = state[sender].nonce + 1
        /\ state[sender].balance >= tx.transaction.value

\* balance and nonce of an address in state, 0 for an address without account
BalanceOf(state, a) == IF a \in DOMAIN state THEN state[a].balance ELSE 0
NonceOf(state, a) == IF a \in DOMAIN state THEN state[a].nonce ELSE 0

\* C31: a transaction that passes all checks is applied: the sender is
\* debited exactly value and its nonce grows by exactly 1, the receiver is
\* credited exactly value (its account is created with nonce 0 when
\* absent), no other account changes; a transfer to oneself leaves the
\* balance and adds 1 to the nonce.
TransferApplied ==
    [][(ProcessCall /\ PassesChecks(cur_state, last_call'.tx)) =>
          LET t == last_call'.tx.transaction
              sender == AddressOf(last_call'.tx.public_key)
              Debit(a) == IF a = sender THEN t.value ELSE 0
              Credit(a) == IF a = t.receiver THEN t.value ELSE 0
          IN  /\ last_call'.ok
              /\ DOMAIN cur_state' = DOMAIN cur_state \cup {t.receiver}
              /\ \A a \in DOMAIN cur_state' :
                    /\ cur_state'[a].balance
                           = BalanceOf(cur_state, a) - Debit(a) + Credit(a)
                    /\ cur_state'[a].nonce
                           = NonceOf(cur_state, a) + (IF a = sender THEN 1 ELSE 0)
              /\ sender = t.receiver =>
                    cur_state'[sender].balance = cur_state[sender].balance]_vars

\* C31 witness: after a transfer that created an account, the ICO account
\* has paid itself: balance as before, nonce one higher
SelfTransferApplied ==
    /\ last_call.ok
    /\ last_call.tx = TxSelfNext
    /\ Cardinality(DOMAIN cur_state) = 2
    /\ cur_state[AddressOf(IcoKey)].balance
           = last_call.before[AddressOf(IcoKey)].balance
    /\ cur_state[AddressOf(IcoKey)].nonce = 2

\* a call of Blockchain::insert has returned in this step, and nothing else
InsertOnlyCall == inputs' = inputs + 1 /\ last_call' = last_call

\* C32: State::process_transaction of a transaction whose signature does
\* not verify, whose sender has no account, whose nonce is not the sender's
\* nonce plus 1, or whose value exceeds the sender's balance fails and
\* leaves the state exactly as it was; Blockchain::insert of a block leaves
\* the stored state of its parent as it was.
FailedTransferLeavesState ==
    [][/\ (ProcessCall /\ ~PassesChecks(cur_state, last_call'.tx))
             => ~last_call'.ok /\ cur_state' = cur_state
       /\ (InsertOnlyCall
              /\ last_insert'.block.header.parent \in DOMAIN blockchain.states)
             => LET parent == last_insert'.block.header.parent
                IN  /\ parent \in DOMAIN blockchain'.states
                    /\ blockchain'.states[parent] = blockchain.states[parent]]_vars

\* C32 witness: after a successful transfer, a transaction of a stale nonce
\* has failed on a state of two accounts, and a block with transactions is
\* stored on the genesis block
StaleNonceRefused ==
    /\ ~last_call.ok
    /\ last_call.tx = Tx2
    /\ last_call.before = cur_state
    /\ cur_state[AddressOf(IcoKey)].nonce = 1
    /\ HashBlock(BlkB) \in DOMAIN blockchain.states
    /\ blockchain.states[HashBlock(BlkB)] # GenesisState

\* C33: the genesis state holds exactly three ICO accounts, each with
\* balance 10,000,000 and nonce 0, and the account the generator signs with
\* is one of them.
GenesisHoldsThreeIcoAccounts ==
    LET genesis == blockchain.states[GenesisHash]
    IN  /\ Cardinality(DOMAIN genesis) = 3
        /\ \A a \in DOMAIN genesis :
              genesis[a] = [nonce |-> 0, balance |-> 10000000]
        /\ gen_tx # NoTx => AddressOf(gen_tx.public_key) \in DOMAIN genesis

RECURSIVE Log2Up(_)
\* the number of times n items are halved, rounding up, until one is left
Log2Up(n) == IF n <= 1 THEN 0 ELSE 1 + Log2Up((n + 1) \div 2)

\* C34: for every non-empty list of items and every index below its length,
\* the proof of the tree for the index verifies against the root of the
\* tree, the hash of the item and the length of the list; the proof has one
\* node per level below the root.
ProofVerifies ==
    merkle_call.data # <<>> =>
        /\ merkle_call.ok
        /\ Len(merkle_call.proof) = Log2Up(Len(merkle_call.data))

\* C34 witness: the proof of the last of five items, which is paired with
\* itself, has verified
LastOfOddVerified ==
    /\ Len(merkle_call.data) = 5
    /\ merkle_call.index = 4
    /\ merkle_call.proof[1] = HashItem(merkle_call.data[5])
    /\ merkle_call.data[4] # merkle_call.data[5]
    /\ merkle_call.ok

\* thread t is about to send on the network
Sends(t) == ~AtLoopTop(t) /\ NextOp(t).op \in {"write", "broadcast"}

\* thread t is in Mutex::lock of mutex m
Waits(t, m) == ~AtLoopTop(t) /\ NextOp(t) = Lock(m)

\* C35: no thread holds the guards of the blockchain mutex and of the
\* mempool mutex at the same time.
NeverBothMutexes ==
    \A t \in Threads : ~(holder["blockchain"] = t /\ holder["mempool"] = t)

\* C36: when the network worker writes to a peer or broadcasts, it holds
\* neither the blockchain mutex nor the mempool mutex.
SendsWithoutLocks ==
    [][(Sends("network_worker")
           /\ lock_pc'["network_worker"] # lock_pc["network_worker"])
          => \A m \in Mutexes : holder[m] # "network_worker"]_vars

PublishedBlockValid ==
    [][Publishes =>
          /\ PublishedBlock.header.parent \in DOMAIN blockchain.states
          /\ ValidateFrom(PublishedBlock.content.data, 1,
                 blockchain.states[PublishedBlock.header.parent]).ok]_vars


\* C39: every block of the orphan buffer is stored under the hash of its
\* parent and is not stored in the blockchain.
OrphansUnderParent ==
    \A k \in DOMAIN orphan_buffer :
        \A i \in 1..Len(orphan_buffer[k]) :
            /\ orphan_buffer[k][i].header.parent = k
            /\ HashBlock(orphan_buffer[k][i]) \notin DOMAIN blockchain.blocks


RECURSIVE SumOver(_, _)
\* the sum of the balances of the accounts `addresses` of `state`
SumOver(state, addresses) ==
    IF addresses = {} THEN 0
    ELSE LET a == CHOOSE x \in addresses : TRUE
         IN  state[a].balance + SumOver(state, addresses \ {a})

\* the sum of all account balances of a state
TotalBalance(state) == SumOver(state, DOMAIN state)

\* C40: in the state stored for every block, the account balances add up to
\* the total of the genesis state, and every balance lies between 0 and that
\* total (1,000,000), so no subtraction goes below 0 and no addition leaves
\* the range of an unsigned 64-bit integer.
ValueConserved ==
    \A h \in DOMAIN blockchain.states :
        /\ TotalBalance(blockchain.states[h]) = TotalBalance(GenesisState)
        /\ \A a \in DOMAIN blockchain.states[h] :
              blockchain.states[h][a].balance \in 0..TotalBalance(GenesisState)

\* a block is stored whose state comes from two transfers in a row: the ICO
\* account has paid twice and the receiver holds both payments
TwoTransfersStored ==
    /\ HashBlock(BlkBNext) \in DOMAIN blockchain.states
    /\ LET s == blockchain.states[HashBlock(BlkBNext)]
       IN  /\ s[AddressOf(IcoKey)].nonce = 2
           /\ s[AddressOf(IcoKey)].balance < IcoBalance
           /\ AddressOf(2) \in DOMAIN s
           /\ s[AddressOf(2)].balance = Tx1.transaction.value + Tx3.transaction.value

=============================================================================
